---- MODULE Spec2Model ----
(***************************************************************************)
(* Model of the multi-agent request pipeline: the guardrails gate          *)
(* (SecureMultiAgentSystem), the router (MultiAgentSystem), the supervisor  *)
(* client, the emergency agent, the ticketing agent and the FAQ agent.      *)
(*                                                                          *)
(* Strings are sequences of chunks.  A chunk is a run of characters that    *)
(* the program never looks inside: every keyword, brace, quote and blank    *)
(* the code searches for is a chunk of its own, so `in`, find, rfind,       *)
(* lower and split are computed on the sequence as the code computes them   *)
(* on characters.                                                           *)
(* Python values are tagged records, so that a dict may hold values of      *)
(* different types.                                                         *)
(***************************************************************************)
EXTENDS Integers, Sequences, FiniteSets, TLC

\* ------------------------------------------------------------------------
\* Bounds of the model
\* ------------------------------------------------------------------------
\* largest number of message chunks in one supervisor reply
MaxMessages == 2
\* timestamps returned by datetime.utcnow() are 0..MaxTime
MaxTime == 1
\* calls made on a TicketingAgent in one run
MaxOps == 3

\* ------------------------------------------------------------------------
\* Python values
\* ------------------------------------------------------------------------
None == [t |-> "none"]
Str(s) == [t |-> "str", v |-> s]
Bool(b) == [t |-> "bool", v |-> b]
Num(n) == [t |-> "num", v |-> n]
List(l) == [t |-> "list", v |-> l]
Dict(d) == [t |-> "dict", v |-> d]

EmptyDict == Dict(<<>>)

\* Python truthiness: bool(x)
Truthy(x) ==
    CASE x.t = "none" -> FALSE
      [] x.t = "bool" -> x.v
      [] x.t = "num"  -> x.v # 0
      [] x.t = "str"  -> x.v # <<>>
      [] x.t = "list" -> x.v # <<>>
      [] x.t = "dict" -> DOMAIN x.v # {}

\* dict.get(key, default) on a Dict value
Get(d, k, default) == IF k \in DOMAIN d.v THEN d.v[k] ELSE default

\* `key in dict`
Has(d, k) == k \in DOMAIN d.v

\* d[k] = val on a copy of d
With(d, k, val) == Dict([x \in (DOMAIN d.v) \cup {k} |-> IF x = k THEN val ELSE d.v[x]])

\* ------------------------------------------------------------------------
\* str operations
\* ------------------------------------------------------------------------
\* str.lower() of one chunk
LowerChunk(c) ==
    CASE c = "Fire"   -> "fire"
      [] c = "HELP"   -> "help"
      [] c = "Ticket" -> "ticket"
      [] c = "Urgent" -> "urgent"
      [] c = "FAQ"    -> "faq"
      [] c = "What"   -> "what"
      [] c = "Please" -> "please"
      [] c = "Hello"  -> "hello"
      [] c = "Our"    -> "our"
      [] c = "That is a " -> "that is a "
      [] c = "Route to "  -> "route to "
      [] OTHER        -> c

\* str.lower()
Lower(s) == [i \in DOMAIN s |-> LowerChunk(s[i])]

\* `sub in s`
Contains(s, sub) ==
    \E i \in 0..(Len(s) - Len(sub)) : SubSeq(s, i + 1, i + Len(sub)) = sub

\* s.find(c) for a one-character c: 0-based index of the first occurrence, -1 if none
Find(s, c) ==
    IF \E i \in DOMAIN s : s[i] = c
    THEN (CHOOSE i \in DOMAIN s : s[i] = c /\ \A j \in 1..(i - 1) : s[j] # c) - 1
    ELSE -1

\* s.rfind(c): 0-based index of the last occurrence, -1 if none
RFind(s, c) ==
    IF \E i \in DOMAIN s : s[i] = c
    THEN (CHOOSE i \in DOMAIN s : s[i] = c /\ \A j \in (i + 1)..Len(s) : s[j] # c) - 1
    ELSE -1

\* s[start:end] with 0-based, end-exclusive indices
Slice(s, start, end) == SubSeq(s, start + 1, end)

\* ------------------------------------------------------------------------
\* json.loads on chunk sequences
\* ------------------------------------------------------------------------
JSONDecodeError == [ok |-> FALSE]
Parsed(val, pos) == [ok |-> TRUE, val |-> val, pos |-> pos]

\* index of the first chunk at or after i that is not a blank
SkipWs(s, i) ==
    CHOOSE j \in i..(Len(s) + 1) :
        /\ \A k \in i..(j - 1) : s[k] = " "
        /\ (j = Len(s) + 1 \/ s[j] # " ")

\* the chunk that stands for an escaped quote inside a JSON string literal
EscQuote == "\\\""

\* a string literal starting at the quote s[i]; the only escape of the model's
\* texts is the escaped quote
ParseString(s, i) ==
    IF \E j \in (i + 1)..Len(s) : s[j] = "\""
    THEN LET j == CHOOSE j \in (i + 1)..Len(s) :
                     s[j] = "\"" /\ \A k \in (i + 1)..(j - 1) : s[k] # "\""
             body == SubSeq(s, i + 1, j - 1)
         IN  Parsed(Str([k \in DOMAIN body |-> IF body[k] = EscQuote THEN "\"" ELSE body[k]]),
                    j + 1)
    ELSE JSONDecodeError

RECURSIVE ParseValue(_, _)
RECURSIVE ParseElems(_, _, _)
RECURSIVE ParseMembers(_, _, _)

\* elements of an array after '[' or ',': acc holds the elements read so far
ParseElems(s, i, acc) ==
    LET e == ParseValue(s, SkipWs(s, i))
    IN  IF ~e.ok THEN JSONDecodeError
        ELSE LET j == SkipWs(s, e.pos)
             IN  IF j > Len(s) THEN JSONDecodeError
                 ELSE IF s[j] = "]" THEN Parsed(List(Append(acc, e.val)), j + 1)
                 ELSE IF s[j] = "," THEN ParseElems(s, j + 1, Append(acc, e.val))
                 ELSE JSONDecodeError

\* members of an object after '{' or ',': acc holds the members read so far
ParseMembers(s, i, acc) ==
    LET k == SkipWs(s, i)
    IN  IF k > Len(s) \/ s[k] # "\"" THEN JSONDecodeError
        ELSE LET key == ParseString(s, k)
             IN  IF ~key.ok THEN JSONDecodeError
                 ELSE LET c == SkipWs(s, key.pos)
                      \* every key of the model's texts is one chunk
                      IN  IF c > Len(s) \/ s[c] # ":" \/ Len(key.val.v) # 1 THEN JSONDecodeError
                          ELSE LET e == ParseValue(s, SkipWs(s, c + 1))
                               IN  IF ~e.ok THEN JSONDecodeError
                                   ELSE LET j == SkipWs(s, e.pos)
                                            next == With(acc, key.val.v[1], e.val)
                                        IN  IF j > Len(s) THEN JSONDecodeError
                                            ELSE IF s[j] = "}" THEN Parsed(next, j + 1)
                                            ELSE IF s[j] = "," THEN ParseMembers(s, j + 1, next)
                                            ELSE JSONDecodeError

\* one JSON value starting at s[i]
ParseValue(s, i) ==
    IF i > Len(s) THEN JSONDecodeError
    ELSE CASE s[i] = "\""    -> ParseString(s, i)
           [] s[i] = "true"  -> Parsed(Bool(TRUE), i + 1)
           [] s[i] = "false" -> Parsed(Bool(FALSE), i + 1)
           [] s[i] = "null"  -> Parsed(None, i + 1)
           [] s[i] = "["     ->
                LET j == SkipWs(s, i + 1)
                IN  IF j <= Len(s) /\ s[j] = "]" THEN Parsed(List(<<>>), j + 1)
                    ELSE ParseElems(s, i + 1, <<>>)
           [] s[i] = "{"     ->
                LET j == SkipWs(s, i + 1)
                IN  IF j <= Len(s) /\ s[j] = "}" THEN Parsed(EmptyDict, j + 1)
                    ELSE ParseMembers(s, i + 1, EmptyDict)
           [] OTHER          -> JSONDecodeError

\* json.loads(s): the value, or JSONDecodeError
Loads(s) ==
    LET r == ParseValue(s, SkipWs(s, 1))
    IN  IF r.ok /\ SkipWs(s, r.pos) = Len(s) + 1 THEN r ELSE JSONDecodeError

\* ------------------------------------------------------------------------
\* json.dumps
\* ------------------------------------------------------------------------
\* Python dicts keep insertion order; every dict of the model is built with its
\* keys in this order
KeyOrder ==
    << "input", "output",
       "timestamp", "original_message", "is_emergency", "severity",
       "recommended_actions", "reasoning",
       "content", "agent",
       "action", "success", "ticket", "error", "ticket_id",
       "subject", "user_id", "assigned_to", "description", "status", "priority",
       "created_at", "updated_at", "emergency", "cancellation_reason", "reason",
       "filtered_response" >>

\* the keys of d in insertion order
RECURSIVE KeysFrom(_, _)
KeysFrom(d, i) ==
    IF i > Len(KeyOrder) THEN <<>>
    ELSE (IF KeyOrder[i] \in DOMAIN d.v THEN <<KeyOrder[i]>> ELSE <<>>) \o KeysFrom(d, i + 1)

Keys(d) == KeysFrom(d, 1)

RECURSIVE Dumps(_)
RECURSIVE DumpsElems(_, _)
RECURSIVE DumpsMembers(_, _, _)

DumpsElems(l, i) ==
    IF i > Len(l) THEN <<>>
    ELSE (IF i > 1 THEN <<",", " ">> ELSE <<>>) \o Dumps(l[i]) \o DumpsElems(l, i + 1)

DumpsMembers(d, ks, i) ==
    IF i > Len(ks) THEN <<>>
    ELSE (IF i > 1 THEN <<",", " ">> ELSE <<>>)
         \o <<"\"", ks[i], "\"", ":", " ">> \o Dumps(d.v[ks[i]])
         \o DumpsMembers(d, ks, i + 1)

\* json.dumps(x) with the default separators
Dumps(x) ==
    CASE x.t = "none" -> <<"null">>
      [] x.t = "bool" -> IF x.v THEN <<"true">> ELSE <<"false">>
      [] x.t = "num"  -> <<ToString(x.v)>>
      [] x.t = "str"  ->
            <<"\"">> \o [k \in DOMAIN x.v |-> IF x.v[k] = "\"" THEN EscQuote ELSE x.v[k]] \o <<"\"">>
      [] x.t = "list" -> <<"[">> \o DumpsElems(x.v, 1) \o <<"]">>
      [] x.t = "dict" -> <<"{">> \o DumpsMembers(x, Keys(x), 1) \o <<"}">>


\* ------------------------------------------------------------------------
\* Calls: what one request invoked, in order
\* ------------------------------------------------------------------------
Call(op, arg) == [op |-> op, arg |-> arg]

\* number of entries of log with the operation op
RECURSIVE Count(_, _)
Count(log, op) ==
    IF log = <<>> THEN 0
    ELSE (IF Head(log).op = op THEN 1 ELSE 0) + Count(Tail(log), op)

\* no exception
NoExc == "none"

\* datetime.utcnow().isoformat()
Timestamps == 0..MaxTime
IsoFormat(ts) == Str(<<ToString(ts)>>)

\* ------------------------------------------------------------------------
\* GuardrailsManager (guardrails_integration.py)
\* ------------------------------------------------------------------------
\* replies of bedrock_runtime.apply_guardrail: the call throws, or its body
\* parses to `result`
Throws == [throws |-> TRUE]
Replies(body) == [throws |-> FALSE, body |-> body]

TopicPolicy(d) == Dict("assessment" :> Dict("topicPolicy" :> Dict(d)))

Redacted == Str(<<"[", "redacted", "]">>)
Violence == List(<<Str(<<"violence">>)>>)

GuardrailReplies ==
    { Throws,
      Replies(EmptyDict),
      Replies(TopicPolicy(("blocked" :> Bool(TRUE)) @@ ("topics" :> Violence))),
      Replies(TopicPolicy("blocked" :> Bool(TRUE))),
      Replies(Dict("output" :> Redacted)) }

\* the result dict of a guardrail pass; text_key is filtered_input or filtered_output
GuardrailResult(is_blocked, text_key, text, reasons) ==
    Dict(("is_blocked" :> is_blocked) @@ (text_key :> text) @@ ("blocked_reasons" :> reasons))

\* GuardrailPass with `and` in place of `or` in the test of the configuration
GuardrailPass_BothAbsent(config, text, body_key, text_key, reply) ==
    IF ~Truthy(config.guardrail_id) /\ ~Truthy(config.guardrail_version)
    THEN [result |-> GuardrailResult(Bool(FALSE), text_key, text, List(<<>>)),
          calls  |-> <<>>]
    ELSE LET call == Call("apply_guardrail", Str(Dumps(Dict(body_key :> text))))
         IN  IF reply.throws
             THEN [result |-> GuardrailResult(Bool(FALSE), text_key, text, List(<<>>)),
                   calls  |-> <<call>>]
             ELSE LET policy == Get(Get(reply.body, "assessment", EmptyDict),
                                    "topicPolicy", EmptyDict)
                  IN  [result |-> GuardrailResult(Get(policy, "blocked", Bool(FALSE)),
                                                  text_key,
                                                  Get(reply.body, "output", text),
                                                  Get(policy, "topics", List(<<>>))),
                       calls  |-> <<call>>]

\* both passes: apply_guardrails with (input, filtered_input),
\* apply_guardrails_to_output with (output, filtered_output)
GuardrailPass(config, text, body_key, text_key, reply) ==
    IF ~Truthy(config.guardrail_id) \/ ~Truthy(config.guardrail_version)
    THEN [result |-> GuardrailResult(Bool(FALSE), text_key, text, List(<<>>)),
          calls  |-> <<>>]
    ELSE LET call == Call("apply_guardrail", Str(Dumps(Dict(body_key :> text))))
         IN  IF reply.throws
             THEN [result |-> GuardrailResult(Bool(FALSE), text_key, text, List(<<>>)),
                   calls  |-> <<call>>]
             ELSE LET policy == Get(Get(reply.body, "assessment", EmptyDict),
                                    "topicPolicy", EmptyDict)
                  IN  [result |-> GuardrailResult(Get(policy, "blocked", Bool(FALSE)),
                                                  text_key,
                                                  Get(reply.body, "output", text),
                                                  Get(policy, "topics", List(<<>>))),
                       calls  |-> <<call>>]

apply_guardrails(config, input_text, reply) ==
    GuardrailPass(config, input_text, "input", "filtered_input", reply)

apply_guardrails_to_output(config, output_text, reply) ==
    GuardrailPass(config, output_text, "output", "filtered_output", reply)

\* ------------------------------------------------------------------------
\* EmergencyAgent (emergency_agent.py)
\* ------------------------------------------------------------------------
\* a reply of invoke_model whose first content block carries `text`
ModelText(text) == Replies(Dict("content" :> List(<<Dict("text" :> Str(text))>>)))

Q(word) == <<"\"", word, "\"">>

EvalJson(is_emergency, severity, action) ==
    <<"{">> \o Q("is_emergency") \o <<":", " ", is_emergency, ",", " ">>
            \o Q("severity") \o <<":", " ">> \o Q(severity) \o <<",", " ">>
            \o Q("recommended_actions") \o <<":", " ", "[">> \o Q(action) \o <<"]", ",", " ">>
            \o Q("reasoning") \o <<":", " ">> \o Q("assessed") \o <<"}">>

EmergencyModelReplies ==
    { Throws,
      \* response body without content blocks: the text defaults to '{}'
      Replies(EmptyDict),
      ModelText(EvalJson("true", "high", "evacuate")),
      ModelText(<<"Here you go: ">> \o EvalJson("true", "critical", "call 911") \o <<" Stay safe.">>),
      ModelText(EvalJson("true", "medium", "monitor")),
      ModelText(EvalJson("false", "high", "none")),
      ModelText(<<"I cannot assess this.">>),
      ModelText(<<"{", "is_emergency", ":", " ", "yes", "}">>) }

\* outcomes of sns.publish
PublishOutcomes == {"ok", "throws"}

\* what is wrong with a reply of the model: the call threw ("model"), its text
\* holds no JSON object that parses ("parse"), or nothing ("none")
ReplyFault(reply) ==
    IF reply.throws THEN "model"
    ELSE IF ~Has(reply.body, "content") THEN "none"
    ELSE IF Find(reply.body.v["content"].v[1].v["text"].v, "{") < 0
            \/ ~Loads(Slice(reply.body.v["content"].v[1].v["text"].v,
                            Find(reply.body.v["content"].v[1].v["text"].v, "{"),
                            RFind(reply.body.v["content"].v[1].v["text"].v, "}") + 1)).ok
    THEN "parse"
    ELSE "none"

\* the default evaluation with is_emergency = true
SafeDefault_Emergency(reasoning) ==
    Dict(("is_emergency" :> Bool(TRUE)) @@ ("severity" :> Str(<<"unknown">>))
         @@ ("recommended_actions" :> List(<<>>)) @@ ("reasoning" :> Str(reasoning)))

SafeDefault(reasoning) ==
    Dict(("is_emergency" :> Bool(FALSE)) @@ ("severity" :> Str(<<"unknown">>))
         @@ ("recommended_actions" :> List(<<>>)) @@ ("reasoning" :> Str(reasoning)))

HighSeverities == {Str(<<"high">>), Str(<<"critical">>)}

\* the notification published for an evaluation
Publish(config, message, evaluation, ts) ==
    LET notification ==
            Dict(("timestamp" :> IsoFormat(ts))
                 @@ ("original_message" :> message)
                 @@ ("severity" :> Get(evaluation, "severity", None))
                 @@ ("recommended_actions" :> Get(evaluation, "recommended_actions", List(<<>>)))
                 @@ ("reasoning" :> Get(evaluation, "reasoning", Str(<<>>))))
    IN  Call("sns.publish",
             Dict(("TopicArn" :> config.sns_topic_arn)
                  @@ ("Subject" :> Str(<<"EMERGENCY", " ", "ALERT", " - ">>
                                       \o Get(evaluation, "severity", Str(<<"high">>)).v
                                       \o <<" ", "severity">>))
                  @@ ("Message" :> Str(Dumps(notification)))))

\* _escalate_emergency without the test of sns_topic_arn
_escalate_emergency_NoTopicTest(config, message, evaluation, ts, pub) ==
    <<Publish(config, message, evaluation, ts)>>

\* _escalate_emergency: the calls it makes; an exception of sns.publish (pub =
\* "throws") is caught inside and nothing is raised
_escalate_emergency(config, message, evaluation, ts, pub) ==
    IF ~Truthy(config.sns_topic_arn) THEN <<>>
    ELSE <<Publish(config, message, evaluation, ts)>>

\* the escalation test with 'high' left out of the list
ShouldEscalate_CriticalOnly(evaluation) ==
    Truthy(Get(evaluation, "is_emergency", Bool(FALSE)))
    /\ Get(evaluation, "severity", None) = Str(<<"critical">>)

\* the escalation test of evaluate_emergency
ShouldEscalate(evaluation) ==
    Truthy(Get(evaluation, "is_emergency", Bool(FALSE)))
    /\ Get(evaluation, "severity", None) \in HighSeverities

\* lines 79-85 of evaluate_emergency: the parsed evaluation, escalated when it is
\* a high or critical emergency; an exception of json.loads gives the default
ParsedEvaluation(config, message, parsed, ts, pub) ==
    IF ~parsed.ok
    THEN [evaluation |-> SafeDefault(<<"Error: ", "JSONDecodeError">>), calls |-> <<>>]
    ELSE [evaluation |-> parsed.val,
          calls |-> IF ShouldEscalate(parsed.val)
                    THEN _escalate_emergency(config, message, parsed.val, ts, pub)
                    ELSE <<>>]

\* lines 74-92 of evaluate_emergency: the evaluation read from the text of the model
EvaluateContent(config, message, content, ts, pub) ==
    LET start_idx == Find(content, "{")
        end_idx   == RFind(content, "}") + 1
    IN  IF start_idx >= 0 /\ end_idx > start_idx
        THEN ParsedEvaluation(config, message, Loads(Slice(content, start_idx, end_idx)), ts, pub)
        ELSE [evaluation |-> SafeDefault(<<"Failed to evaluate the situation">>), calls |-> <<>>]

\* the model call of evaluate_emergency followed by what came after it
AfterInvokeModel(e) ==
    [evaluation |-> e.evaluation,
     calls |-> <<Call("invoke_model", Str(<<"emergency">>))>> \o e.calls]

\* evaluate_emergency: the evaluation it returns and the calls it makes.
\* Every exception inside is caught, the one of sns.publish in _escalate_emergency.
evaluate_emergency(config, message, reply, ts, pub) ==
    IF reply.throws
    THEN AfterInvokeModel([evaluation |-> SafeDefault(<<"Error: ", "invoke_model">>),
                           calls |-> <<>>])
    ELSE AfterInvokeModel(
             EvaluateContent(config, message,
                             Get(Get(reply.body, "content", List(<<EmptyDict>>)).v[1],
                                 "text", Str(<<"{", "}">>)).v,
                             ts, pub))

\* the response of handle_emergency_request with only 'critical' in the escalated tier
EmergencyResponse_CriticalOnly(evaluation) ==
    IF Truthy(Get(evaluation, "is_emergency", Bool(FALSE)))
    THEN Dict(("status" :> IF Get(evaluation, "severity", None) = Str(<<"critical">>)
                           THEN Str(<<"emergency_escalated">>)
                           ELSE Str(<<"emergency_identified">>))
              @@ ("message" :> Str(<<"This situation has been identified as a potential ",
                                     "emergency">>))
              @@ ("actions" :> Get(evaluation, "recommended_actions", List(<<>>)))
              @@ ("severity" :> Get(evaluation, "severity", None)))
    ELSE Dict(("status" :> Str(<<"not_emergency">>))
              @@ ("message" :> Str(<<"This situation has not been identified as an ",
                                     "emergency">>))
              @@ ("reasoning" :> Get(evaluation, "reasoning", Str(<<>>)))
              @@ ("severity" :> Get(evaluation, "severity", Str(<<"low">>))))

\* the response of handle_emergency_request for the evaluation it obtained
EmergencyResponse(evaluation) ==
    IF Truthy(Get(evaluation, "is_emergency", Bool(FALSE)))
    THEN IF Get(evaluation, "severity", None) \in HighSeverities
         THEN Dict(("status" :> Str(<<"emergency_escalated">>))
                   @@ ("message" :> Str(<<"This situation has been identified as a serious ",
                                          "emergency", " and has been escalated">>))
                   @@ ("actions" :> Get(evaluation, "recommended_actions", List(<<>>)))
                   @@ ("severity" :> Get(evaluation, "severity", None)))
         ELSE Dict(("status" :> Str(<<"emergency_identified">>))
                   @@ ("message" :> Str(<<"This situation has been identified as a potential ",
                                          "emergency">>))
                   @@ ("actions" :> Get(evaluation, "recommended_actions", List(<<>>)))
                   @@ ("severity" :> Get(evaluation, "severity", None)))
    ELSE Dict(("status" :> Str(<<"not_emergency">>))
              @@ ("message" :> Str(<<"This situation has not been identified as an ",
                                     "emergency">>))
              @@ ("reasoning" :> Get(evaluation, "reasoning", Str(<<>>)))
              @@ ("severity" :> Get(evaluation, "severity", Str(<<"low">>))))

\* handle_emergency_request shaping its response without looking at the evaluation
EmergencyHandled_IgnoresEvaluation(message, e) ==
    [response   |-> EmergencyResponse(EmptyDict),
     evaluation |-> e.evaluation,
     calls      |-> <<Call("handle_emergency_request", message)>> \o e.calls]

\* lines 149-174 of handle_emergency_request: the response for the evaluation e
EmergencyHandled(message, e) ==
    [response   |-> EmergencyResponse(e.evaluation),
     evaluation |-> e.evaluation,
     calls      |-> <<Call("handle_emergency_request", message)>> \o e.calls]

\* handle_emergency_request: evaluates, then shapes the response
handle_emergency_request(config, message, reply, ts, pub) ==
    EmergencyHandled(message, evaluate_emergency(config, message, reply, ts, pub))


\* ------------------------------------------------------------------------
\* SupervisorAgentClient (supervisor_integration.py)
\* ------------------------------------------------------------------------
\* the bytes of a completion event whose chunk is the JSON of a message
Event(message) == Dict("chunk" :> Dict("bytes" :> Str(Dumps(message))))
Message(content) == Dict("content" :> Str(content))

AgentJson(agent) == <<"{">> \o Q("agent") \o <<":">> \o Q(agent) \o <<"}">>

\* the contents a supervisor message can carry
SupervisorContents ==
    { <<"{">> \o Q("agent") \o <<":", "\"", "ticket", "ing", "\"", "}">>,
      <<"That is a ", "question", " for the ", "FAQ">>,
      <<"Urgent", "!">>,
      <<"Hello">> }

SupervisorEvents ==
    {Event(Message(c)) : c \in SupervisorContents}
    \cup { \* a chunk whose bytes are not JSON
           Dict("chunk" :> Dict("bytes" :> Str(<<"Hello">>))) }

RECURSIVE SeqsUpTo(_, _)
\* the sequences over S of length at most n
SeqsUpTo(S, n) ==
    IF n = 0 THEN {<<>>}
    ELSE LET shorter == SeqsUpTo(S, n - 1)
         IN  shorter \cup {Append(q, x) : q \in {r \in shorter : Len(r) = n - 1}, x \in S}

SessionIds == {Str(<<"sess-1">>)}

SupervisorReplies ==
    {Throws}
    \cup {Replies(Dict("completion" :> List(events))) : events \in SeqsUpTo(SupervisorEvents, MaxMessages)}
    \cup {Replies(Dict(("completion" :> List(events)) @@ ("sessionId" :> Str(<<"sess-2">>)))) :
            events \in SeqsUpTo(SupervisorEvents, MaxMessages)}

RECURSIVE CollectMessages(_, _, _)
RECURSIVE CollectParsed(_, _, _, _)
\* the loop over response["completion"]: the messages, or the exception of json.loads
CollectMessages(events, i, acc) ==
    IF i > Len(events) THEN [ok |-> TRUE, messages |-> acc]
    ELSE LET chunk == Get(events[i], "chunk", None)
         IN  IF Truthy(chunk) /\ Has(chunk, "bytes")
             THEN CollectParsed(events, i, acc, Loads(chunk.v["bytes"].v))
             ELSE CollectMessages(events, i + 1, acc)

\* lines 57-58: the parsed chunk is appended and the loop goes on
CollectParsed(events, i, acc, parsed) ==
    IF parsed.ok THEN CollectMessages(events, i + 1, Append(acc, parsed.val))
    ELSE [ok |-> FALSE]

\* lines 38-52 of invoke_agent: the two calls, the second with the request built
SupervisorCalls(message, session_id) ==
    <<Call("supervisor.invoke_agent", message),
      Call("bedrock.invoke_agent",
           IF Truthy(session_id)
           THEN Dict(("inputText" :> message) @@ ("sessionId" :> session_id))
           ELSE Dict("inputText" :> message))>>

\* lines 53-68 of invoke_agent: the result for the completion read
SupervisorResult(body, collected) ==
    IF ~collected.ok THEN Dict("error" :> Str(<<"JSONDecodeError">>))
    ELSE IF Has(body, "sessionId")
    THEN Dict(("messages" :> List(collected.messages)) @@ ("sessionId" :> body.v["sessionId"]))
    ELSE Dict("messages" :> List(collected.messages))

\* invoke_agent: raises ValueError before the try block when an identifier is
\* missing; every exception inside the try block becomes {"error": ...}
invoke_agent(config, message, session_id, reply) ==
    IF ~Truthy(config.agent_id) \/ ~Truthy(config.agent_alias_id)
    THEN [raised |-> "ValueError", result |-> None,
          calls |-> <<Call("supervisor.invoke_agent", message)>>]
    ELSE [raised |-> NoExc,
          calls  |-> SupervisorCalls(message, session_id),
          result |-> IF reply.throws THEN Dict("error" :> Str(<<"invoke_agent">>))
                     ELSE SupervisorResult(reply.body,
                              CollectMessages(reply.body.v["completion"].v, 1, <<>>))]


\* ------------------------------------------------------------------------
\* TicketingAgent (ticketing_agent.py): operations on the DynamoDB table.
\* The table is a function from ticket_id to the stored item.
\* ------------------------------------------------------------------------
\* outcomes of a store or bucket call: it succeeds, it raises ClientError, or it
\* raises an exception that is not a ClientError
StoreOutcomes == {"ok", "ClientError", "OtherError"}

\* the parameters of create_ticket that have no default
CreateTicketRequired == {"subject", "description", "user_id", "emergency"}

\* create_ticket with the arguments bound; ticket_id is the uuid4 drawn
create_ticket(tbl, subject, description, user_id, emergency, priority, assigned_to, ticket_id, ts, outcome) ==
    LET ticket == Dict(("ticket_id" :> Str(<<ticket_id>>))
                       @@ ("subject" :> subject)
                       @@ ("user_id" :> user_id)
                       @@ ("assigned_to" :> assigned_to)
                       @@ ("description" :> description)
                       @@ ("status" :> Str(<<"open">>))
                       @@ ("priority" :> priority)
                       @@ ("created_at" :> IsoFormat(ts))
                       @@ ("updated_at" :> IsoFormat(ts))
                       @@ ("emergency" :> emergency))
        put == Call("put_item", ticket)
    IN  CASE outcome = "ok" ->
                [raised |-> NoExc, ret |-> ticket, calls |-> <<put>>,
                 table |-> [k \in (DOMAIN tbl) \cup {ticket_id} |->
                               IF k = ticket_id THEN ticket ELSE tbl[k]]]
          [] outcome = "ClientError" ->
                [raised |-> NoExc, ret |-> None, calls |-> <<put>>, table |-> tbl]
          [] OTHER ->
                [raised |-> outcome, ret |-> None, calls |-> <<put>>, table |-> tbl]

\* get_ticket_status
get_ticket_status(tbl, ticket_id, outcome) ==
    LET get == Call("get_item", ticket_id)
    IN  CASE outcome = "ok" ->
                [raised |-> NoExc, calls |-> <<get>>,
                 ret |-> IF ticket_id.t = "str" /\ Len(ticket_id.v) = 1 /\ ticket_id.v[1] \in DOMAIN tbl
                         THEN tbl[ticket_id.v[1]] ELSE None]
          [] outcome = "ClientError" -> [raised |-> NoExc, calls |-> <<get>>, ret |-> None]
          [] OTHER -> [raised |-> outcome, calls |-> <<get>>, ret |-> None]

\* the item update_item works on: the item with that key, or a new item holding
\* only the key when the key is absent
Item(tbl, ticket_id) ==
    IF ticket_id.v[1] \in DOMAIN tbl THEN tbl[ticket_id.v[1]]
    ELSE Dict("ticket_id" :> ticket_id)

\* cancel_ticket with a put of a new item in place of the update
cancel_ticket_Replaces(tbl, ticket_id, reason, ts, outcome) ==
    LET id == ticket_id.v[1]
        set == Dict(("ticket_id" :> ticket_id) @@ ("status" :> Str(<<"cancelled">>))
                    @@ ("updated_at" :> IsoFormat(ts)))
        new == IF Truthy(reason) THEN With(set, "cancellation_reason", reason) ELSE set
        upd == Call("update_item", ticket_id)
    IN  CASE outcome = "ok" ->
                [raised |-> NoExc, ret |-> Bool(TRUE), calls |-> <<upd>>,
                 table |-> [k \in (DOMAIN tbl) \cup {id} |-> IF k = id THEN new ELSE tbl[k]]]
          [] outcome = "ClientError" ->
                [raised |-> NoExc, ret |-> Bool(FALSE), calls |-> <<upd>>, table |-> tbl]
          [] OTHER ->
                [raised |-> outcome, ret |-> Bool(FALSE), calls |-> <<upd>>, table |-> tbl]

\* cancel_ticket: update_item sets the attributes on the item with that key and
\* creates the item when the key is absent
cancel_ticket(tbl, ticket_id, reason, ts, outcome) ==
    LET id == ticket_id.v[1]
        old == Item(tbl, ticket_id)
        set == With(With(old, "status", Str(<<"cancelled">>)), "updated_at", IsoFormat(ts))
        new == IF Truthy(reason) THEN With(set, "cancellation_reason", reason) ELSE set
        upd == Call("update_item", ticket_id)
    IN  CASE outcome = "ok" ->
                [raised |-> NoExc, ret |-> Bool(TRUE), calls |-> <<upd>>,
                 table |-> [k \in (DOMAIN tbl) \cup {id} |-> IF k = id THEN new ELSE tbl[k]]]
          [] outcome = "ClientError" ->
                [raised |-> NoExc, ret |-> Bool(FALSE), calls |-> <<upd>>, table |-> tbl]
          [] OTHER ->
                [raised |-> outcome, ret |-> Bool(FALSE), calls |-> <<upd>>, table |-> tbl]

\* ------------------------------------------------------------------------
\* BedrockTicketingAgent (bedrock_integration.py)
\* ------------------------------------------------------------------------
IntentJson(action, key, value) ==
    <<"{">> \o Q("action") \o <<":", " ">> \o Q(action) \o <<",", " ">>
            \o Q(key) \o <<":", " ">> \o Q(value) \o <<"}">>

IntentModelReplies ==
    { Throws,
      ModelText(IntentJson("create_ticket", "subject", "printer")),
      ModelText(IntentJson("get_ticket_status", "ticket_id", "T1")),
      ModelText(<<"{">> \o Q("action") \o <<":", " ">> \o Q("get_ticket_status") \o <<"}">>),
      ModelText(<<"{">> \o Q("action") \o <<":", " ">> \o Q("cancel_ticket") \o <<",", " ">>
                \o Q("ticket_id") \o <<":", " ">> \o Q("T1") \o <<",", " ">>
                \o Q("reason") \o <<":", " ">> \o Q("duplicate") \o <<"}">>),
      ModelText(<<"{">> \o Q("action") \o <<":", " ">> \o Q("cancel_ticket") \o <<"}">>),
      ModelText(IntentJson("escalate", "ticket_id", "T1")),
      ModelText(<<"{">> \o Q("subject") \o <<":", " ">> \o Q("printer") \o <<"}">>),
      ModelText(<<"I do not understand.">>),
      ModelText(<<"{", "action", "}">>) }

Unknown == Dict("action" :> Str(<<"unknown">>))

\* lines 158-162: the parsed JSON, or the unknown intent when it does not parse
ParsedIntent(parsed) == IF parsed.ok THEN parsed.val ELSE Unknown

\* lines 153-162 of _determine_intent: the intent read from the text of the model
IntentOf(content) ==
    LET start_idx == Find(content, "{")
        end_idx   == RFind(content, "}") + 1
    IN  IF start_idx >= 0 /\ end_idx > start_idx
        THEN ParsedIntent(Loads(Slice(content, start_idx, end_idx)))
        ELSE Unknown

\* _determine_intent: the model call is outside the try block, so its exception
\* is raised; a reply that does not parse gives the unknown intent
_determine_intent(user_input, reply) ==
    LET invoke == Call("invoke_model", Str(<<"intent">>))
    IN  IF reply.throws
        THEN [raised |-> "Exception", intent |-> None, calls |-> <<invoke>>]
        ELSE [raised |-> NoExc, calls |-> <<invoke>>,
              intent |-> IntentOf(Get(Get(reply.body, "content", List(<<EmptyDict>>)).v[1],
                                      "text", Str(<<"{", "}">>)).v)]

\* the keyword arguments process_request passes to create_ticket
CreateTicketSupplied == {"subject", "description", "priority", "assigned_to"}

\* the structured failure for an intent without ticket_id
NoTicketId(name) ==
    Dict(("action" :> Str(<<name>>)) @@ ("success" :> Bool(FALSE))
         @@ ("error" :> Str(<<"No ticket ID provided">>)))

\* the get_ticket_status branch without its test of ticket_id
GetStatusAction_NoIdTest(tbl, entry, ticket_id, outcome) ==
    [raised |-> get_ticket_status(tbl, ticket_id, outcome).raised,
     calls |-> entry \o get_ticket_status(tbl, ticket_id, outcome).calls, table |-> tbl,
     response |-> Dict(("action" :> Str(<<"get_ticket_status">>))
                       @@ ("success" :> Bool(get_ticket_status(tbl, ticket_id, outcome).ret # None))
                       @@ ("ticket" :> get_ticket_status(tbl, ticket_id, outcome).ret))]

\* lines 50-65 of BedrockTicketingAgent.process_request: the get_ticket_status branch
GetStatusAction(tbl, entry, ticket_id, outcome) ==
    IF ~Truthy(ticket_id)
    THEN [raised |-> NoExc, response |-> NoTicketId("get_ticket_status"),
          calls |-> entry, table |-> tbl]
    ELSE [raised |-> get_ticket_status(tbl, ticket_id, outcome).raised,
          calls |-> entry \o get_ticket_status(tbl, ticket_id, outcome).calls, table |-> tbl,
          response |-> Dict(("action" :> Str(<<"get_ticket_status">>))
                            @@ ("success" :> Bool(get_ticket_status(tbl, ticket_id, outcome).ret # None))
                            @@ ("ticket" :> get_ticket_status(tbl, ticket_id, outcome).ret))]

\* the result of the cancel_ticket branch for what cancel_ticket returned or raised
Cancelled(entry, ticket_id, c) ==
    [raised |-> c.raised, calls |-> entry \o c.calls, table |-> c.table,
     response |-> Dict(("action" :> Str(<<"cancel_ticket">>))
                       @@ ("success" :> c.ret)
                       @@ ("ticket_id" :> ticket_id))]

\* lines 67-85 of BedrockTicketingAgent.process_request: the cancel_ticket branch
CancelAction(tbl, entry, ticket_id, reason, ts, outcome) ==
    IF ~Truthy(ticket_id)
    THEN [raised |-> NoExc, response |-> NoTicketId("cancel_ticket"),
          calls |-> entry, table |-> tbl]
    ELSE Cancelled(entry, ticket_id, cancel_ticket(tbl, ticket_id, reason, ts, outcome))

\* the result of the create_ticket branch for what create_ticket returned or raised
Created(entry, c) ==
    [raised |-> c.raised, calls |-> entry \o c.calls, table |-> c.table,
     response |-> Dict(("action" :> Str(<<"create_ticket">>))
                       @@ ("success" :> Bool(c.ret # None))
                       @@ ("ticket" :> c.ret))]

\* lines 36-48 of BedrockTicketingAgent.process_request: the create_ticket branch
CreateAction(tbl, entry, intent, ts, outcome) ==
    IF ~(CreateTicketRequired \subseteq CreateTicketSupplied)
    THEN \* the call does not bind user_id and emergency
         [raised |-> "TypeError", response |-> None, calls |-> entry, table |-> tbl]
    ELSE Created(entry,
                 create_ticket(tbl,
                               Get(intent, "subject", Str(<<"No subject provided">>)),
                               Get(intent, "description", Str(<<"No description provided">>)),
                               None, None,
                               Get(intent, "priority", Str(<<"medium">>)),
                               Get(intent, "assigned_to", None),
                               "T1", ts, outcome))

\* lines 36-92 of BedrockTicketingAgent.process_request: the branch taken for the
\* intent; `entry` holds the calls made so far
TicketingAction(tbl, entry, intent, ts, outcome) ==
    IF ~Has(intent, "action")
    THEN [raised |-> "KeyError", response |-> None, calls |-> entry, table |-> tbl]
    ELSE IF intent.v["action"] = Str(<<"create_ticket">>)
    THEN CreateAction(tbl, entry, intent, ts, outcome)
    ELSE IF intent.v["action"] = Str(<<"get_ticket_status">>)
    THEN GetStatusAction(tbl, entry, Get(intent, "ticket_id", None), outcome)
    ELSE IF intent.v["action"] = Str(<<"cancel_ticket">>)
    THEN CancelAction(tbl, entry, Get(intent, "ticket_id", None), Get(intent, "reason", None),
                      ts, outcome)
    ELSE [raised |-> NoExc, calls |-> entry, table |-> tbl,
          response |-> Dict(("action" :> Str(<<"unknown">>)) @@ ("success" :> Bool(FALSE))
                            @@ ("error" :> Str(<<"Could not determine the requested action">>)))]

\* lines 33-92 of BedrockTicketingAgent.process_request: after _determine_intent
\* returned or raised d
IntentDetermined(tbl, user_input, d, ts, outcome) ==
    IF d.raised # NoExc
    THEN [raised |-> d.raised, response |-> None, table |-> tbl,
          calls |-> <<Call("ticketing.process_request", user_input)>> \o d.calls]
    ELSE TicketingAction(tbl, <<Call("ticketing.process_request", user_input)>> \o d.calls,
                         d.intent, ts, outcome)

\* BedrockTicketingAgent.process_request
ticketing_process_request(tbl, user_input, reply, ts, outcome) ==
    IntentDetermined(tbl, user_input, _determine_intent(user_input, reply), ts, outcome)


\* ------------------------------------------------------------------------
\* FAQAgent (faq_agent.py)
\* ------------------------------------------------------------------------
\* default of max_docs
MaxDocs == 3

Whitespace == {" ", "\n"}

RECURSIVE SplitFrom(_, _, _, _)
\* str.split(): the maximal runs of chunks that are not whitespace
SplitFrom(s, i, word, acc) ==
    IF i > Len(s) THEN (IF word = <<>> THEN acc ELSE Append(acc, word))
    ELSE IF s[i] \in Whitespace
         THEN SplitFrom(s, i + 1, <<>>, IF word = <<>> THEN acc ELSE Append(acc, word))
         ELSE SplitFrom(s, i + 1, Append(word, s[i]), acc)

Split(s) == SplitFrom(s, 1, <<>>, <<>>)

\* set(s.lower().split())
Terms(s) == LET words == Split(Lower(s)) IN {words[i] : i \in DOMAIN words}

\* str.endswith
EndsWith(s, suffix) ==
    Len(s) >= Len(suffix) /\ SubSeq(s, Len(s) - Len(suffix) + 1, Len(s)) = suffix

\* the bodies of the objects of the bucket; a listed key without body was
\* deleted after the listing and get_object raises ClientError for it
DocBody(key) ==
    CASE key = <<"kb/", "returns", ".txt">> ->
            <<"Our", " ", "return", " ", "policy", " ", "is", " ", "30", " ", "days">>
      [] key = <<"kb/", "shipping", ".md">> ->
            <<"shipping", " ", "policy", "\n", "is", " ", "free">>
      [] key = <<"kb/", "logo", ".png">> ->
            <<"return", " ", "policy">>
      [] key = <<"kb/", "hours", ".json">> ->
            <<"{", "\"", "open", "\"", ":", " ", "\"", "9-5", "\"", "}">>
      [] key = <<"kb/", "faq", ".md">> ->
            <<"What", " ", "is", " ", "this">>
      [] key = <<"kb/", "policy", ".txt">> ->
            <<"return", " ", "return", "\n", "policy", "?">>
      [] OTHER -> <<>>

DocKeys ==
    { <<"kb/", "returns", ".txt">>, <<"kb/", "shipping", ".md">>,
      <<"kb/", "logo", ".png">>, <<"kb/", "hours", ".json">>,
      <<"kb/", "faq", ".md">>, <<"kb/", "policy", ".txt">> }

\* replies of s3.list_objects_v2: an exception, a response without Contents, a listing
ListReplies ==
    { [throws |-> TRUE, exc |-> "ClientError"],
      [throws |-> TRUE, exc |-> "OtherError"],
      [throws |-> FALSE, body |-> EmptyDict],
      [throws |-> FALSE, body |-> Dict("Contents" :> List(
          << <<"kb/", "logo", ".png">>, <<"kb/", "shipping", ".md">>,
             <<"kb/", "returns", ".txt">>, <<"kb/", "hours", ".json">> >>))],
      [throws |-> FALSE, body |-> Dict("Contents" :> List(
          << <<"kb/", "hours", ".json">>, <<"kb/", "gone", ".txt">> >>))] }

RECURSIVE ScanFrom(_, _, _, _, _)
\* lines 70-75: the document joins relevant_docs when it shares a term with the query
WithDoc(relevant_docs, key, content, overlap) ==
    IF overlap > 0
    THEN Append(relevant_docs, [content |-> content, source |-> key, relevance |-> overlap])
    ELSE relevant_docs

\* the get_object call of one key, followed by the rest of the loop
AfterGetObject(key, rest) ==
    [ok |-> rest.ok, docs |-> rest.docs,
     fetched |-> <<Call("get_object", Str(key))>> \o rest.fetched]

RECURSIVE ScanFrom_Exhaustive(_, _, _, _, _)
\* ScanFrom without the break at max_docs documents
ScanFrom_Exhaustive(keys, i, query_terms, max_docs, relevant_docs) ==
    IF i > Len(keys)
    THEN [ok |-> TRUE, docs |-> relevant_docs, fetched |-> <<>>]
    ELSE LET key == keys[i]
         IN  IF ~EndsWith(key, <<".txt">>) /\ ~EndsWith(key, <<".md">>) /\ ~EndsWith(key, <<".json">>)
             THEN ScanFrom_Exhaustive(keys, i + 1, query_terms, max_docs, relevant_docs)
             ELSE IF key \notin DocKeys
             THEN [ok |-> FALSE, docs |-> <<>>, fetched |-> <<Call("get_object", Str(key))>>]
             ELSE AfterGetObject(key,
                      ScanFrom_Exhaustive(keys, i + 1, query_terms, max_docs,
                               WithDoc(relevant_docs, key, DocBody(key),
                                       Cardinality(query_terms \cap Terms(DocBody(key))))))

\* the loop over response['Contents']: the relevant documents, or the
\* ClientError of get_object
ScanFrom(keys, i, query_terms, max_docs, relevant_docs) ==
    IF i > Len(keys) \/ Len(relevant_docs) >= max_docs
    THEN [ok |-> TRUE, docs |-> relevant_docs, fetched |-> <<>>]
    ELSE LET key == keys[i]
         IN  IF ~EndsWith(key, <<".txt">>) /\ ~EndsWith(key, <<".md">>) /\ ~EndsWith(key, <<".json">>)
             THEN ScanFrom(keys, i + 1, query_terms, max_docs, relevant_docs)
             ELSE IF key \notin DocKeys
             THEN [ok |-> FALSE, docs |-> <<>>, fetched |-> <<Call("get_object", Str(key))>>]
             ELSE AfterGetObject(key,
                      ScanFrom(keys, i + 1, query_terms, max_docs,
                               WithDoc(relevant_docs, key, DocBody(key),
                                       Cardinality(query_terms \cap Terms(DocBody(key))))))

RECURSIVE InsertByRelevance_BeforeTies(_, _)
\* doc placed before the documents of sorted of the same relevance
InsertByRelevance_BeforeTies(sorted, doc) ==
    IF sorted = <<>> THEN <<doc>>
    ELSE IF Head(sorted).relevance > doc.relevance
         THEN <<Head(sorted)>> \o InsertByRelevance_BeforeTies(Tail(sorted), doc)
         ELSE <<doc>> \o sorted

RECURSIVE InsertByRelevance(_, _)
\* doc placed after the documents of sorted whose relevance is not smaller
InsertByRelevance(sorted, doc) ==
    IF sorted = <<>> THEN <<doc>>
    ELSE IF Head(sorted).relevance >= doc.relevance
         THEN <<Head(sorted)>> \o InsertByRelevance(Tail(sorted), doc)
         ELSE <<doc>> \o sorted

RECURSIVE SortByRelevance(_, _, _)
\* list.sort(key=relevance, reverse=True): descending and stable
SortByRelevance(docs, i, sorted) ==
    IF i > Len(docs) THEN sorted
    ELSE SortByRelevance(docs, i + 1, InsertByRelevance(sorted, docs[i]))

\* lines 77-83 of retrieve_relevant_documents: the documents returned after the scan
Retrieved(max_docs, scan) ==
    IF ~scan.ok
    THEN [raised |-> NoExc, docs |-> <<>>,
          calls |-> <<Call("list_objects_v2", Str(<<"knowledge_base/">>))>> \o scan.fetched]
    ELSE [raised |-> NoExc,
          calls |-> <<Call("list_objects_v2", Str(<<"knowledge_base/">>))>> \o scan.fetched,
          docs |-> SubSeq(SortByRelevance(scan.docs, 1, <<>>), 1,
                          IF Len(scan.docs) < max_docs THEN Len(scan.docs) ELSE max_docs)]

\* retrieve_relevant_documents
retrieve_relevant_documents(query, max_docs, listing) ==
    IF listing.throws
    THEN [raised |-> IF listing.exc = "ClientError" THEN NoExc ELSE listing.exc,
          docs |-> <<>>, calls |-> <<Call("list_objects_v2", Str(<<"knowledge_base/">>))>>]
    ELSE IF ~Has(listing.body, "Contents")
    THEN [raised |-> NoExc, docs |-> <<>>,
          calls |-> <<Call("list_objects_v2", Str(<<"knowledge_base/">>))>>]
    ELSE Retrieved(max_docs,
                   ScanFrom(listing.body.v["Contents"].v, 1, Terms(query), max_docs, <<>>))

FaqModelReplies ==
    { Throws,
      Replies(EmptyDict),
      ModelText(<<"You can ", "return", " items within 30 days.">>) }

\* the sources in the reverse of the order of the documents
Sources_Reversed(docs) ==
    List([i \in DOMAIN docs |-> Str(docs[Len(docs) + 1 - i].source)])

\* line 106: sources = [doc['source'] for doc in relevant_docs]
Sources(docs) == List([i \in DOMAIN docs |-> Str(docs[i].source)])

\* answer_question without the return for an empty retrieval
Answered_AlwaysAsks(query, r, reply) ==
    LET entry == <<Call("faq.answer_question", query)>> \o r.calls
        invoke == Call("invoke_model", Str(<<"faq">>))
    IN  IF r.raised # NoExc
        THEN [raised |-> r.raised, response |-> None, calls |-> entry]
        ELSE IF reply.throws
        THEN [raised |-> NoExc, calls |-> Append(entry, invoke),
              response |-> Dict(("answer" :> Str(<<"I encountered an error while trying to answer your ",
                                                   "question", ".">>))
                                @@ ("sources" :> List(<<>>)))]
        ELSE [raised |-> NoExc, calls |-> Append(entry, invoke),
              response |-> Dict(("answer" :> Get(Get(reply.body, "content", List(<<EmptyDict>>)).v[1],
                                                 "text", Str(<<>>)))
                                @@ ("sources" :> Sources(r.docs)))]

\* lines 96-151 of answer_question: the response for the documents r retrieved
Answered(query, r, reply) ==
    LET entry == <<Call("faq.answer_question", query)>> \o r.calls
        invoke == Call("invoke_model", Str(<<"faq">>))
    IN  IF r.raised # NoExc
        THEN [raised |-> r.raised, response |-> None, calls |-> entry]
        ELSE IF r.docs = <<>>
        THEN [raised |-> NoExc, calls |-> entry,
              response |-> Dict(("answer" :> Str(<<"I couldn't find any relevant information in the ",
                                                   "knowledge base", ".">>))
                                @@ ("sources" :> List(<<>>)))]
        ELSE IF reply.throws
        THEN [raised |-> NoExc, calls |-> Append(entry, invoke),
              response |-> Dict(("answer" :> Str(<<"I encountered an error while trying to answer your ",
                                                   "question", ".">>))
                                @@ ("sources" :> List(<<>>)))]
        ELSE [raised |-> NoExc, calls |-> Append(entry, invoke),
              response |-> Dict(("answer" :> Get(Get(reply.body, "content", List(<<EmptyDict>>)).v[1],
                                                 "text", Str(<<>>)))
                                @@ ("sources" :> Sources(r.docs)))]

\* answer_question
answer_question(query, listing, reply) ==
    Answered(query, retrieve_relevant_documents(query.v, MaxDocs, listing), reply)

\* ------------------------------------------------------------------------
\* MultiAgentSystem (multi_agent_system.py): the router
\* ------------------------------------------------------------------------
emergency_keywords ==
    << <<"emergency">>, <<"accident">>, <<"injury">>, <<"fire">>, <<"urgent">>,
       <<"help">>, <<"danger">> >>

\* any(keyword in user_input.lower() for keyword in emergency_keywords)
HasEmergencyKeyword(user_input) ==
    \E i \in DOMAIN emergency_keywords : Contains(Lower(user_input.v), emergency_keywords[i])

\* the keywords of the fallback in _extract_routing_decision
RoutingKeywords ==
    { <<"ticket">>, <<"create", " ", "ticket">>, <<"cancel", " ", "ticket">>,
      <<"question">>, <<"faq">>, <<"knowledge", " ", "base">>,
      <<"emergency">>, <<"urgent">> }

\* KeywordDecision that keeps the decision of the first fragment that matched
KeywordDecision_FirstWins(content_lower, decision) ==
    IF Get(decision, "agent", None) # Str(<<"supervisor">>) THEN decision
    ELSE IF Contains(content_lower, <<"ticket">>)
    THEN With(decision, "agent", Str(<<"ticket", "ing">>))
    ELSE IF Contains(content_lower, <<"question">>)
            \/ Contains(content_lower, <<"faq">>)
            \/ Contains(content_lower, <<"knowledge", " ", "base">>)
    THEN With(decision, "agent", Str(<<"faq">>))
    ELSE IF Contains(content_lower, <<"emergency">>) \/ Contains(content_lower, <<"urgent">>)
    THEN With(decision, "agent", Str(<<"emergency">>))
    ELSE decision

\* the decision of the keyword fallback for one content; `decision` when nothing matches
KeywordDecision(content_lower, decision) ==
    IF Contains(content_lower, <<"ticket">>)
       \/ Contains(content_lower, <<"create", " ", "ticket">>)
       \/ Contains(content_lower, <<"cancel", " ", "ticket">>)
    THEN With(decision, "agent", Str(<<"ticket", "ing">>))
    ELSE IF Contains(content_lower, <<"question">>)
            \/ Contains(content_lower, <<"faq">>)
            \/ Contains(content_lower, <<"knowledge", " ", "base">>)
    THEN With(decision, "agent", Str(<<"faq">>))
    ELSE IF Contains(content_lower, <<"emergency">>) \/ Contains(content_lower, <<"urgent">>)
    THEN With(decision, "agent", Str(<<"emergency">>))
    ELSE decision

\* the routing JSON of one content: parsed only when the content holds '{"agent":'
RoutingInfo(content) ==
    IF Contains(content, <<"{", "\"", "agent", "\"", ":">>)
    THEN LET start_idx == Find(content, "{")
             end_idx   == RFind(content, "}") + 1
         IN  IF start_idx >= 0 /\ end_idx > start_idx
             THEN Loads(Slice(content, start_idx, end_idx))
             ELSE JSONDecodeError
    ELSE JSONDecodeError

RECURSIVE RoutingLoop(_, _, _)
RECURSIVE RoutingStep(_, _, _, _, _)
\* the loop over the messages of the supervisor's response
RoutingLoop(messages, i, decision) ==
    IF i > Len(messages) THEN decision
    ELSE RoutingStep(messages, i, decision, Get(messages[i], "content", Str(<<>>)).v,
                     RoutingInfo(Get(messages[i], "content", Str(<<>>)).v))

\* lines 111-132: one message, with the routing JSON read from its content
RoutingStep(messages, i, decision, content, info) ==
    IF info.ok /\ Has(info.val, "agent") THEN info.val
    ELSE RoutingLoop(messages, i + 1, KeywordDecision(Lower(content), decision))

\* _extract_routing_decision with faq as the default decision
_extract_routing_decision_DefaultFaq(supervisor_response) ==
    RoutingLoop(Get(supervisor_response, "messages", List(<<>>)).v, 1,
                Dict("agent" :> Str(<<"faq">>)))

\* _extract_routing_decision
_extract_routing_decision(supervisor_response) ==
    RoutingLoop(Get(supervisor_response, "messages", List(<<>>)).v, 1,
                Dict("agent" :> Str(<<"supervisor">>)))

\* a supervisor result none of whose messages holds the '{"agent":' marker or one
\* of the routing keywords
NoSignal(supervisor_response) ==
    \A i \in DOMAIN Get(supervisor_response, "messages", List(<<>>)).v :
        LET content == Get(Get(supervisor_response, "messages", List(<<>>)).v[i],
                           "content", Str(<<>>)).v
        IN  /\ ~Contains(content, <<"{", "\"", "agent", "\"", ":">>)
            /\ \A k \in RoutingKeywords : ~Contains(Lower(content), k)

\* _extract_supervisor_message
_extract_supervisor_message(supervisor_response) ==
    LET messages == Get(supervisor_response, "messages", List(<<>>))
    IN  IF Truthy(messages) THEN Get(messages.v[1], "content", Str(<<>>)) ELSE Str(<<>>)

\* ------------------------------------------------------------------------
\* SecureMultiAgentSystem (secure_multi_agent_system.py): text of a response
\* ------------------------------------------------------------------------
\* _extract_response_text for a dict response
_extract_response_text(response) ==
    IF Has(response, "message") THEN response.v["message"]
    ELSE IF Has(response, "answer") THEN response.v["answer"]
    ELSE IF Has(response, "response") THEN response.v["response"]
    ELSE Str(Dumps(response))

\* _update_response_text without its `answer` branch
_update_response_text_NoAnswer(response, filtered_text) ==
    IF Has(response, "message") THEN With(response, "message", filtered_text)
    ELSE IF Has(response, "response") THEN With(response, "response", filtered_text)
    ELSE With(response, "filtered_response", filtered_text)

\* _update_response_text for a dict response
_update_response_text(response, filtered_text) ==
    IF Has(response, "message") THEN With(response, "message", filtered_text)
    ELSE IF Has(response, "answer") THEN With(response, "answer", filtered_text)
    ELSE IF Has(response, "response") THEN With(response, "response", filtered_text)
    ELSE With(response, "filtered_response", filtered_text)


InputBlockedMessage ==
    Str(<<"I'm sorry, but I cannot process this request as it violates our content policies.">>)

OutputBlockedMessage ==
    Str(<<"I'm sorry, but I cannot provide the generated response as it violates our content policies.">>)

\* the input gate without the test of is_blocked
InputGate_NeverBlocks(user_input, input_guardrail_result) ==
    [blocked |-> FALSE,
     filtered_input |-> Get(input_guardrail_result, "filtered_input", user_input)]

\* lines 65-74 of process_request: the blocked response, or the text handed to
\* the router
InputGate(user_input, input_guardrail_result) ==
    IF Truthy(Get(input_guardrail_result, "is_blocked", Bool(FALSE)))
    THEN [blocked  |-> TRUE,
          response |-> Dict(("status" :> Str(<<"blocked_by_guardrails">>))
                            @@ ("message" :> InputBlockedMessage)
                            @@ ("blocked_reasons" :> Get(input_guardrail_result, "blocked_reasons", List(<<>>))))]
    ELSE [blocked |-> FALSE,
          filtered_input |-> Get(input_guardrail_result, "filtered_input", user_input)]

\* the output gate that marks the router's response as blocked and returns it
OutputGate_KeepsResponse(response, response_text, output_guardrail_result) ==
    IF Truthy(Get(output_guardrail_result, "is_blocked", Bool(FALSE)))
    THEN With(With(With(response, "status", Str(<<"output_blocked_by_guardrails">>)),
                   "message", OutputBlockedMessage),
              "blocked_reasons", Get(output_guardrail_result, "blocked_reasons", List(<<>>)))
    ELSE _update_response_text(response,
                               Get(output_guardrail_result, "filtered_output", response_text))

\* lines 83-94 of process_request: the response returned after the output pass
OutputGate(response, response_text, output_guardrail_result) ==
    IF Truthy(Get(output_guardrail_result, "is_blocked", Bool(FALSE)))
    THEN Dict(("status" :> Str(<<"output_blocked_by_guardrails">>))
              @@ ("message" :> OutputBlockedMessage)
              @@ ("blocked_reasons" :> Get(output_guardrail_result, "blocked_reasons", List(<<>>))))
    ELSE _update_response_text(response,
                               Get(output_guardrail_result, "filtered_output", response_text))

\* the pre-check without its return
ShortCircuit_Never(emergency_evaluation) == <<>>

\* lines 71-72 of MultiAgentSystem.process_request: the handler the emergency
\* pre-check returns from, none when the request goes on to the supervisor
ShortCircuit(emergency_evaluation) ==
    IF Truthy(Get(emergency_evaluation, "is_emergency", Bool(FALSE)))
    THEN <<"emergency">> ELSE <<>>

\* the dispatch with `if` in place of `elif` and no return: it falls through to
\* the else branch after the ticketing handler
Dispatch_FallsThrough(routing_decision) ==
    LET agent == Get(routing_decision, "agent", None)
    IN  IF agent = Str(<<"ticket", "ing">>) THEN <<"ticketing", "supervisor">>
        ELSE IF agent = Str(<<"faq">>) THEN <<"faq">>
        ELSE IF agent = Str(<<"emergency">>) THEN <<"emergency">>
        ELSE <<"supervisor">>

\* lines 81-92 of MultiAgentSystem.process_request: the handlers run for a decision
Dispatch(routing_decision) ==
    LET agent == Get(routing_decision, "agent", None)
    IN  IF agent = Str(<<"ticket", "ing">>) THEN <<"ticketing">>
        ELSE IF agent = Str(<<"faq">>) THEN <<"faq">>
        ELSE IF agent = Str(<<"emergency">>) THEN <<"emergency">>
        ELSE <<"supervisor">>

\* ------------------------------------------------------------------------
\* The state machine: one request at a time runs through the pipeline
\* ------------------------------------------------------------------------
VARIABLES
    config,                 \* the constructor arguments of SecureMultiAgentSystem
    table,                  \* the items of the DynamoDB ticket table
    pc,                     \* where the request in progress stands
    user_input,             \* argument of SecureMultiAgentSystem.process_request
    session_id,             \* argument of SecureMultiAgentSystem.process_request
    input_guardrail_result, \* result of the input pass
    filtered_input,         \* the text handed to the router
    emergency_evaluation,   \* the evaluation of the router's emergency pre-check
    supervisor_response,    \* what invoke_agent returned
    todo,                   \* the handlers the router has still to run
    dispatched,             \* the handlers the router ran, with their outputs
    response,               \* what the router returned
    output_guardrail_result,\* result of the output pass
    result,                 \* what SecureMultiAgentSystem.process_request returned
    raised,                 \* the exception that escaped process_request
    calls,                  \* the calls of the request, in order
    faults,                 \* the guardrail passes of the request whose collaborator call threw
    routing,                \* the routing decision taken from the supervisor's reply
    intent,                 \* the intent _determine_intent returned to the ticketing handler
    faq,                    \* what the FAQ handler retrieved, and the reply of its model
    direct,                 \* the last call made on an agent directly, outside the pipeline
    parked,                 \* the locals of the other request on the same instance
    last_eval               \* the last call of evaluate_emergency: its calls and evaluation,
                            \* what failed in the model reply and the outcome of sns.publish

vars == << config, table, pc, user_input, session_id, input_guardrail_result, filtered_input,
           emergency_evaluation, supervisor_response, todo, dispatched, response,
           output_guardrail_result, result, raised, calls, faults, routing, intent,
           faq, direct, parked, last_eval >>

Configs ==
    [ guardrail_id      : {None, Str(<<"gr-1">>)},
      guardrail_version : {None, Str(<<"1">>)},
      sns_topic_arn     : {None, Str(<<"arn:alerts">>)},
      agent_id          : {None, Str(<<"agent-1">>)},
      agent_alias_id    : {None, Str(<<"alias-1">>)} ]

UserInputs ==
    { Str(<<"Fire", " ", "spreading", "!">>),
      Str(<<"help", "ful">>),
      Str(<<"What", " ", "is", " ", "your", " ", "return", " ", "policy", "?">>) }

\* no other request runs on the instance
NoFrame == [pc |-> "none"]

\* no agent has been called directly
NoDirect == [op |-> "none", n |-> 0]

\* the FAQ handler has not run in the request
NoFaq == [docs |-> None, reply |-> None]

\* no supervisor reply has been routed in the request
NoRouting == [quiet |-> TRUE, agent |-> None]

\* the outcome of sns.publish when the calls hold one, "none" otherwise
Published(log, pub) == IF Count(log, "sns.publish") > 0 THEN pub ELSE "none"

NoEval == [calls |-> <<>>, evaluation |-> None, message |-> None, fault |-> "none", pub |-> "none"]

\* the locals of a request that has not started
Fresh ==
    /\ input_guardrail_result' = None
    /\ filtered_input' = None
    /\ emergency_evaluation' = None
    /\ supervisor_response' = None
    /\ todo' = <<>>
    /\ dispatched' = <<>>
    /\ response' = None
    /\ output_guardrail_result' = None
    /\ result' = None
    /\ raised' = NoExc
    /\ calls' = <<>>
    /\ faults' = {}
    /\ routing' = NoRouting
    /\ intent' = None
    /\ faq' = NoFaq
    /\ last_eval' = NoEval

Init ==
    /\ config \in Configs
    /\ table = <<>>
    /\ pc = "idle"
    /\ user_input = None
    /\ session_id = None
    /\ input_guardrail_result = None
    /\ filtered_input = None
    /\ emergency_evaluation = None
    /\ supervisor_response = None
    /\ todo = <<>>
    /\ dispatched = <<>>
    /\ response = None
    /\ output_guardrail_result = None
    /\ result = None
    /\ raised = NoExc
    /\ calls = <<>>
    /\ faults = {}
    /\ routing = NoRouting
    /\ intent = None
    /\ faq = NoFaq
    /\ direct = NoDirect
    /\ parked = NoFrame
    /\ last_eval = NoEval

\* a caller invokes SecureMultiAgentSystem.process_request(user_input, session_id)
NewRequest ==
    /\ pc = "idle"
    /\ \E text \in UserInputs, sid \in {None} \cup SessionIds :
          /\ user_input' = text
          /\ session_id' = sid
    /\ Fresh
    /\ pc' = "input_guardrails"
    /\ UNCHANGED << config, direct, parked, table >>

\* InputGated with the text of the caller handed on in place of the filtered text
InputGated_KeepsOriginal(gate) ==
    IF gate.blocked
    THEN /\ result' = gate.response
         /\ pc' = "done"
         /\ UNCHANGED filtered_input
    ELSE /\ filtered_input' = user_input
         /\ pc' = "route"
         /\ UNCHANGED result

\* lines 65-74 of process_request: the gate on the result of the input pass
InputGated(gate) ==
    IF gate.blocked
    THEN /\ result' = gate.response
         /\ pc' = "done"
         /\ UNCHANGED filtered_input
    ELSE /\ filtered_input' = gate.filtered_input
         /\ pc' = "route"
         /\ UNCHANGED result

\* line 63 of process_request: the input pass returned g
InputPassed(reply, g) ==
    /\ input_guardrail_result' = g.result
    /\ calls' = calls \o g.calls
    /\ faults' = IF g.calls # <<>> /\ reply.throws THEN faults \cup {"input"} ELSE faults
    /\ InputGated(InputGate(user_input, g.result))

\* process_request lines 62-74: the input pass and the gate on its result
ApplyInputGuardrails ==
    /\ pc = "input_guardrails"
    /\ \E reply \in GuardrailReplies :
          InputPassed(reply, apply_guardrails(config, user_input, reply))
    /\ UNCHANGED << config, direct, parked, routing, faq, intent, table, user_input, session_id, emergency_evaluation,
                    supervisor_response, todo, dispatched, response,
                    output_guardrail_result, raised, last_eval >>

\* lines 70-72 of MultiAgentSystem.process_request: evaluate_emergency returned e
Prechecked(e, handlers, fault, pub) ==
    /\ emergency_evaluation' = e.evaluation
    /\ last_eval' = [calls |-> e.calls, evaluation |-> e.evaluation,
                     message |-> filtered_input, fault |-> fault,
                     pub |-> Published(e.calls, pub)]
    /\ calls' = calls \o <<Call("route", filtered_input)>> \o e.calls
    /\ todo' = handlers
    /\ pc' = IF handlers # <<>> THEN "dispatch" ELSE "supervisor"

\* the pre-check with the evaluation obtained
PrecheckEvaluated(e, fault, pub) == Prechecked(e, ShortCircuit(e.evaluation), fault, pub)

\* MultiAgentSystem.process_request lines 67-72: the emergency pre-check
EmergencyPrecheck ==
    /\ pc = "route"
    /\ IF HasEmergencyKeyword(filtered_input)
       THEN \E reply \in EmergencyModelReplies, ts \in Timestamps, pub \in PublishOutcomes :
               PrecheckEvaluated(evaluate_emergency(config, filtered_input, reply, ts, pub),
                                 ReplyFault(reply), pub)
       ELSE /\ calls' = Append(calls, Call("route", filtered_input))
            /\ pc' = "supervisor"
            /\ UNCHANGED << emergency_evaluation, last_eval, todo >>
    /\ UNCHANGED << config, direct, parked, routing, faq, intent, table, user_input, session_id, input_guardrail_result,
                    filtered_input, supervisor_response, dispatched, response,
                    output_guardrail_result, result, raised, faults >>

\* lines 78-92 of MultiAgentSystem.process_request: the handlers of the routing
\* decision are scheduled
Routed(supervisor_result, handlers) ==
    /\ todo' = handlers
    \* kept only for the passthrough, the one reader left
    /\ supervisor_response' =
           IF \E i \in DOMAIN handlers : handlers[i] = "supervisor"
           THEN supervisor_result ELSE None
    /\ pc' = "dispatch"
    /\ UNCHANGED raised

\* line 75 of MultiAgentSystem.process_request: invoke_agent returned or raised r
SupervisorInvoked(r) ==
    /\ calls' = calls \o r.calls
    /\ IF r.raised # NoExc
       THEN /\ raised' = r.raised
            /\ pc' = "done"
            /\ UNCHANGED << supervisor_response, todo, routing >>
       ELSE /\ Routed(r.result, Dispatch(_extract_routing_decision(r.result)))
            /\ routing' = [quiet |-> NoSignal(r.result),
                           agent |-> Get(_extract_routing_decision(r.result), "agent", None)]

\* MultiAgentSystem.process_request lines 75-78: the supervisor call and the
\* routing decision
InvokeSupervisor ==
    /\ pc = "supervisor"
    /\ \E reply \in SupervisorReplies :
          SupervisorInvoked(invoke_agent(config, filtered_input, session_id, reply))
    /\ UNCHANGED << config, direct, parked, table, user_input, session_id, input_guardrail_result,
                    filtered_input, emergency_evaluation, dispatched, response,
                    output_guardrail_result, result, faults, intent, faq, last_eval >>

\* what the router does when a handler returned `out` or raised `exc`
Returned(handler, out, exc) ==
    IF exc # NoExc
    THEN /\ raised' = exc
         /\ pc' = "done"
         /\ supervisor_response' = None
         /\ UNCHANGED << todo, dispatched, response >>
    ELSE /\ dispatched' = Append(dispatched, [handler |-> handler, output |-> out])
         /\ response' = out
         /\ todo' = Tail(todo)
         /\ pc' = IF Tail(todo) = <<>> THEN "output_guardrails" ELSE "dispatch"
         \* the router's frame is gone once it returns
         /\ supervisor_response' = IF Tail(todo) = <<>> THEN None ELSE supervisor_response
         /\ UNCHANGED raised

\* the ticketing handler returned or raised t
TicketingReturned(t, d) ==
    /\ intent' = d.intent
    /\ calls' = calls \o t.calls
    /\ table' = t.table
    /\ Returned("ticketing", t.response, t.raised)

\* line 82: self.ticketing_agent.process_request(user_input)
TicketingHandler ==
    /\ pc = "dispatch" /\ todo # <<>> /\ Head(todo) = "ticketing"
    /\ \E reply \in IntentModelReplies, ts \in Timestamps, outcome \in StoreOutcomes :
          TicketingReturned(ticketing_process_request(table, filtered_input, reply, ts, outcome),
                            _determine_intent(filtered_input, reply))
    /\ UNCHANGED << config, direct, parked, routing, faq, user_input, session_id, input_guardrail_result, filtered_input,
                    emergency_evaluation, output_guardrail_result, result, faults, last_eval >>

\* the FAQ handler returned or raised a
FaqReturned(a, r, reply) ==
    /\ faq' = [docs |-> IF r.raised = NoExc THEN r.docs ELSE None, reply |-> reply]
    /\ calls' = calls \o a.calls
    /\ Returned("faq", a.response, a.raised)

\* line 84: self.faq_agent.answer_question(user_input)
FaqHandler ==
    /\ pc = "dispatch" /\ todo # <<>> /\ Head(todo) = "faq"
    /\ \E listing \in ListReplies, reply \in FaqModelReplies :
          FaqReturned(answer_question(filtered_input, listing, reply),
                      retrieve_relevant_documents(filtered_input.v, MaxDocs, listing), reply)
    /\ UNCHANGED << config, direct, parked, routing, intent, table, user_input, session_id, input_guardrail_result,
                    filtered_input, emergency_evaluation, output_guardrail_result, result,
                    faults, last_eval >>

\* the emergency handler returned h
EmergencyReturned(h, fault, pub) ==
    /\ calls' = calls \o h.calls
    /\ last_eval' = [calls |-> Tail(h.calls), evaluation |-> h.evaluation,
                     message |-> filtered_input, fault |-> fault,
                     pub |-> Published(h.calls, pub)]
    /\ Returned("emergency", h.response, NoExc)

\* lines 72 and 86: self.emergency_agent.handle_emergency_request(user_input)
EmergencyHandler ==
    /\ pc = "dispatch" /\ todo # <<>> /\ Head(todo) = "emergency"
    /\ \E reply \in EmergencyModelReplies, ts \in Timestamps, pub \in PublishOutcomes :
          EmergencyReturned(handle_emergency_request(config, filtered_input, reply, ts, pub),
                            ReplyFault(reply), pub)
    /\ UNCHANGED << config, direct, parked, routing, faq, intent, table, user_input, session_id, input_guardrail_result,
                    filtered_input, emergency_evaluation, output_guardrail_result, result,
                    faults >>

\* lines 87-92: the supervisor's own reply
SupervisorPassthrough ==
    /\ pc = "dispatch" /\ todo # <<>> /\ Head(todo) = "supervisor"
    /\ UNCHANGED calls
    /\ Returned("supervisor",
                Dict(("response" :> _extract_supervisor_message(supervisor_response))
                     @@ ("session_id" :> Get(supervisor_response, "sessionId", None))),
                NoExc)
    /\ UNCHANGED << config, direct, parked, routing, faq, intent, table, user_input, session_id, input_guardrail_result,
                    filtered_input, emergency_evaluation, output_guardrail_result, result,
                    faults, last_eval >>

\* lines 80-94 of process_request: the output pass on response_text returned g
OutputPassed(reply, response_text, g) ==
    /\ output_guardrail_result' = g.result
    /\ calls' = calls \o <<Call("output_pass", response_text)>> \o g.calls
    /\ faults' = IF g.calls # <<>> /\ reply.throws THEN faults \cup {"output"} ELSE faults
    /\ result' = OutputGate(response, response_text, g.result)

\* lines 77-80 of process_request: the text of the response goes to the output pass
OutputPass(reply, response_text) ==
    OutputPassed(reply, response_text, apply_guardrails_to_output(config, response_text, reply))

\* process_request lines 77-94: the output pass and the gate on its result
ApplyOutputGuardrails ==
    /\ pc = "output_guardrails"
    /\ \E reply \in GuardrailReplies : OutputPass(reply, _extract_response_text(response))
    /\ pc' = "done"
    /\ UNCHANGED << config, direct, parked, routing, faq, intent, table, user_input, session_id, input_guardrail_result,
                    filtered_input, emergency_evaluation, supervisor_response, todo,
                    dispatched, response, raised, last_eval >>

\* process_request has returned or raised; the caller may send the next request
Return ==
    /\ pc = "done"
    /\ pc' = "idle"
    /\ UNCHANGED << config, direct, parked, routing, faq, intent, table, user_input, session_id, input_guardrail_result,
                    filtered_input, emergency_evaluation, supervisor_response, todo,
                    dispatched, response, output_guardrail_result, result, raised,
                    calls, faults, last_eval >>

Next ==
    \/ NewRequest
    \/ ApplyInputGuardrails
    \/ EmergencyPrecheck
    \/ InvokeSupervisor
    \/ TicketingHandler
    \/ FaqHandler
    \/ EmergencyHandler
    \/ SupervisorPassthrough
    \/ ApplyOutputGuardrails
    \/ Return

Spec == Init /\ [][Next]_vars

\* ------------------------------------------------------------------------
\* The agents called directly, as the unit tests call them
\* ------------------------------------------------------------------------
\* queries handed to retrieve_relevant_documents
Queries ==
    UserInputs \cup { Str(<<>>), Str(<<"SHIPPING", " ", "is", "\n", "free">>),
                      Str(<<"return", " ", "RETURN">>) }

\* replies of s3.list_objects_v2 with more documents than max_docs
Listings ==
    ListReplies \cup
    { [throws |-> FALSE, body |-> Dict("Contents" :> List(
          << <<"kb/", "shipping", ".md">>, <<"kb/", "logo", ".png">>,
             <<"kb/", "returns", ".txt">>, <<"kb/", "faq", ".md">>,
             <<"kb/", "policy", ".txt">>, <<"kb/", "hours", ".json">> >>))] }

DirectInit ==
    /\ config = [guardrail_id |-> None, guardrail_version |-> None, sns_topic_arn |-> None,
                 agent_id |-> None, agent_alias_id |-> None]
    /\ table = <<>>
    /\ pc = "direct"
    /\ user_input = None
    /\ session_id = None
    /\ input_guardrail_result = None
    /\ filtered_input = None
    /\ emergency_evaluation = None
    /\ supervisor_response = None
    /\ todo = <<>>
    /\ dispatched = <<>>
    /\ response = None
    /\ output_guardrail_result = None
    /\ result = None
    /\ raised = NoExc
    /\ calls = <<>>
    /\ faults = {}
    /\ routing = NoRouting
    /\ intent = None
    /\ faq = NoFaq
    /\ direct = NoDirect
    /\ parked = NoFrame
    /\ last_eval = NoEval

\* the variables of the pipeline, which a direct call leaves alone
pipeline == << config, pc, user_input, session_id, input_guardrail_result, filtered_input,
               emergency_evaluation, supervisor_response, todo, dispatched, response,
               output_guardrail_result, result, raised, calls, faults, routing, intent,
               faq, parked, last_eval >>

\* FAQAgent.retrieve_relevant_documents(query, max_docs)
Retrieve ==
    /\ pc = "direct"
    /\ \E query \in Queries, max_docs \in 1..MaxDocs, listing \in Listings :
          direct' = [op |-> "retrieve_relevant_documents", n |-> 0, query |-> query,
                     max_docs |-> max_docs, listing |-> listing,
                     out |-> retrieve_relevant_documents(query.v, max_docs, listing)]
    /\ UNCHANGED << pipeline, table >>

\* a uuid4 that returns the same value at every call
Uuid_Constant(n) == "T1"

\* uuid.uuid4(): the n-th value drawn
Uuid(n) == CASE n = 1 -> "T1" [] n = 2 -> "T2" [] n = 3 -> "T3" [] n = 4 -> "T4" [] OTHER -> "T5"

\* the ticket ids a caller passes: the ids of the table, and one that was never drawn
CallerIds == DOMAIN table \cup {"X1"}

\* arguments of create_ticket
CreateArgs ==
    { [subject |-> Str(<<"printer">>), description |-> Str(<<"broken">>),
       user_id |-> Str(<<"u1">>), emergency |-> Bool(FALSE),
       priority |-> Str(<<"medium">>), assigned_to |-> None],
      [subject |-> Str(<<"vpn">>), description |-> Str(<<"down">>),
       user_id |-> Str(<<"u2">>), emergency |-> Bool(TRUE),
       priority |-> Str(<<"high">>), assigned_to |-> Str(<<"ann">>)] }

\* reasons passed to cancel_ticket
Reasons == { None, Str(<<>>), Str(<<"duplicate">>) }

\* create_ticket returned or raised c
CreateTicketCalled(args, ticket_id, outcome, c) ==
    /\ direct' = [op |-> "create_ticket", n |-> direct.n + 1, args |-> args,
                  ticket_id |-> ticket_id, outcome |-> outcome,
                  ret |-> c.ret, raised |-> c.raised, calls |-> c.calls]
    /\ table' = c.table

\* TicketingAgent.create_ticket(subject, description, user_id, emergency, priority, assigned_to)
CreateTicket ==
    /\ pc = "direct"
    /\ direct.n < MaxOps
    /\ \E args \in CreateArgs, ts \in Timestamps, outcome \in StoreOutcomes :
          CreateTicketCalled(args, Uuid(direct.n + 1), outcome,
                             create_ticket(table, args.subject, args.description, args.user_id,
                                           args.emergency, args.priority, args.assigned_to,
                                           Uuid(direct.n + 1), ts, outcome))
    /\ UNCHANGED pipeline

\* get_ticket_status returned or raised g
GetTicketStatusCalled(ticket_id, outcome, g) ==
    direct' = [op |-> "get_ticket_status", n |-> direct.n + 1, ticket_id |-> ticket_id,
               outcome |-> outcome,
               ret |-> g.ret, raised |-> g.raised, calls |-> g.calls]

\* TicketingAgent.get_ticket_status(ticket_id)
GetTicketStatus ==
    /\ pc = "direct"
    /\ direct.n < MaxOps
    /\ \E id \in CallerIds, outcome \in StoreOutcomes :
          GetTicketStatusCalled(Str(<<id>>), outcome, get_ticket_status(table, Str(<<id>>), outcome))
    /\ UNCHANGED << pipeline, table >>

\* cancel_ticket returned or raised c
CancelTicketCalled(ticket_id, reason, ts, outcome, c) ==
    /\ direct' = [op |-> "cancel_ticket", n |-> direct.n + 1, ticket_id |-> ticket_id,
                  reason |-> reason, now |-> IsoFormat(ts), outcome |-> outcome,
                  ret |-> c.ret, raised |-> c.raised, calls |-> c.calls]
    /\ table' = c.table

\* TicketingAgent.cancel_ticket(ticket_id, reason)
CancelTicket ==
    /\ pc = "direct"
    /\ direct.n < MaxOps
    /\ \E id \in CallerIds, reason \in Reasons, ts \in Timestamps, outcome \in StoreOutcomes :
          CancelTicketCalled(Str(<<id>>), reason, ts, outcome,
                             cancel_ticket(table, Str(<<id>>), reason, ts, outcome))
    /\ UNCHANGED pipeline

FaqNext ==
    \/ Retrieve

FaqSpec == DirectInit /\ [][FaqNext]_vars

\* the contents of the messages handed to _extract_routing_decision: routing
\* JSON as json.dumps and as a model may write it, for the agents of the router
\* and for one it does not know, alone and next to other text, and text with and
\* without routing keywords
RoutingContents ==
    { <<"{">> \o Q("agent") \o <<":", "\"", "ticket", "ing", "\"", "}">>,
      AgentJson("faq"),
      AgentJson("billing"),
      <<"{">> \o Q("agent") \o <<":", " ">> \o Q("faq") \o <<"}">>,
      <<"{", " ">> \o Q("agent") \o <<":", " ">> \o Q("faq") \o <<" ", "}">>,
      <<"Open a ", "ticket", ": ">> \o AgentJson("emergency"),
      AgentJson("faq") \o <<" ", "{", "ticket", "}">>,
      <<"create", " ", "ticket">>,
      <<"That is a ", "question", " for the ", "FAQ">>,
      <<"Urgent", "!">>,
      <<"Hello">> }

\* the results of invoke_agent handed to _extract_routing_decision
RoutingResponses ==
    {Dict("messages" :> List(messages)) :
        messages \in SeqsUpTo({Message(c) : c \in RoutingContents}, MaxMessages)}

\* a caller invokes _extract_routing_decision(supervisor_response)
ExtractRoutingDecision ==
    /\ pc = "direct"
    /\ \E reply \in RoutingResponses :
          direct' = [op |-> "_extract_routing_decision", n |-> 0,
                     supervisor_response |-> reply,
                     out |-> _extract_routing_decision(reply)]
    /\ UNCHANGED << pipeline, table >>

RoutingNext ==
    \/ ExtractRoutingDecision

RoutingSpec == DirectInit /\ [][RoutingNext]_vars

TicketNext ==
    \/ CreateTicket
    \/ GetTicketStatus
    \/ CancelTicket

TicketSpec == DirectInit /\ [][TicketNext]_vars

\* ------------------------------------------------------------------------
\* lambda_handler (lambda_handler.py): the pipeline behind the Lambda event
\* ------------------------------------------------------------------------
\* a JSON string literal for the chunks of a text
Quoted(chunks) == <<"\"">> \o chunks \o <<"\"">>

\* the events the handler is invoked with: without body, with a null body (a
\* request that carries none), with a body that is not a JSON object, and with
\* JSON objects with and without input and session_id
Events ==
    { EmptyDict,
      Dict("body" :> None),
      Dict("body" :> Str(<<"hello">>)),
      Dict("body" :> Str(<<"[", "]">>)),
      Dict("body" :> Str(<<"{", "}">>)),
      Dict("body" :> Str(<<"{">> \o Q("input") \o <<":", " ">> \o Quoted(<<>>) \o <<"}">>)),
      Dict("body" :> Str(<<"{">> \o Q("session_id") \o <<":", " ">> \o Q("sess-1") \o <<"}">>)),
      Dict("body" :> Str(<<"{">> \o Q("input") \o <<":", " ">> \o Q("helpful") \o <<"}">>)),
      Dict("body" :> Str(<<"{">> \o Q("input") \o <<":", " ">>
                         \o Quoted(<<"Fire", " ", "spreading", "!">>) \o <<",", " ">>
                         \o Q("session_id") \o <<":", " ">> \o Q("sess-1") \o <<"}">>)) }

\* lines 21-27: the response for a request without input
NoInputProvided ==
    Dict(("statusCode" :> Num(400))
         @@ ("body" :> Str(Dumps(Dict("error" :> Str(<<"No input provided">>))))))

\* lines 18-21: the input and the session id of a parsed body
BodyRead(body) ==
    IF body.t # "dict"
    THEN [raised |-> "AttributeError"]
    ELSE [raised |-> NoExc,
          user_input |-> Get(body, "input", Str(<<>>)),
          session_id |-> Get(body, "session_id", None)]

\* line 17: json.loads of a str
BodyLoaded(parsed) ==
    IF parsed.ok THEN BodyRead(parsed.val) ELSE [raised |-> "JSONDecodeError"]

\* lines 17-19: what the handler reads from the event, or what it raises
EventRead(event) ==
    IF Get(event, "body", Str(<<"{", "}">>)).t # "str"
    THEN [raised |-> "TypeError"]
    ELSE BodyLoaded(Loads(Get(event, "body", Str(<<"{", "}">>)).v))

\* the keys of a response of process_request in the order of their insertion
ResponseKeyOrder ==
    << "status", "message", "actions", "reasoning", "severity", "blocked_reasons",
       "answer", "sources", "action", "success", "ticket", "error", "ticket_id",
       "response", "session_id", "filtered_response" >>

RECURSIVE KeysIn(_, _, _)
KeysIn(d, order, i) ==
    IF i > Len(order) THEN <<>>
    ELSE (IF order[i] \in DOMAIN d.v THEN <<order[i]>> ELSE <<>>) \o KeysIn(d, order, i + 1)

\* json.dumps of a response of process_request
DumpsResponse(d) ==
    <<"{">> \o DumpsMembers(d, KeysIn(d, ResponseKeyOrder, 1), 1) \o <<"}">>

\* result.pop('session_id') on a copy
Popped(d, k) == Dict([x \in (DOMAIN d.v) \ {k} |-> d.v[x]])

\* lines 45-56: the response of the handler for the result of process_request
LambdaResponse(res) ==
    Dict(("statusCode" :> Num(200))
         @@ ("body" :>
               IF Has(res, "session_id")
               THEN Str(<<"{", "\"", "response", "\"", ":", " ">>
                        \o DumpsResponse(Popped(res, "session_id"))
                        \o <<",", " ", "\"", "session_id", "\"", ":", " ">>
                        \o Dumps(res.v["session_id"]) \o <<"}">>)
               ELSE Str(DumpsResponse(res))))

LambdaInit ==
    /\ config \in Configs
    /\ table = <<>>
    /\ pc = "lambda"
    /\ user_input = None
    /\ session_id = None
    /\ input_guardrail_result = None
    /\ filtered_input = None
    /\ emergency_evaluation = None
    /\ supervisor_response = None
    /\ todo = <<>>
    /\ dispatched = <<>>
    /\ response = None
    /\ output_guardrail_result = None
    /\ result = None
    /\ raised = NoExc
    /\ calls = <<>>
    /\ faults = {}
    /\ routing = NoRouting
    /\ intent = None
    /\ faq = NoFaq
    /\ direct = NoDirect
    /\ parked = NoFrame
    /\ last_eval = NoEval

\* lines 17-42: the handler raises, rejects the request, or calls process_request
EventHandled(event, e) ==
    IF e.raised # NoExc
    THEN /\ direct' = [op |-> "lambda_handler", n |-> 0, event |-> event, returned |-> TRUE,
                       ret |-> None, raised |-> e.raised]
         /\ user_input' = None /\ session_id' = None
         /\ pc' = "lambda"
    ELSE IF ~Truthy(e.user_input)
    THEN /\ direct' = [op |-> "lambda_handler", n |-> 0, event |-> event, returned |-> TRUE,
                       ret |-> NoInputProvided, raised |-> NoExc]
         /\ user_input' = None /\ session_id' = None
         /\ pc' = "lambda"
    ELSE /\ direct' = [op |-> "lambda_handler", n |-> 0, event |-> event, returned |-> FALSE,
                       ret |-> None, raised |-> NoExc]
         /\ user_input' = e.user_input /\ session_id' = e.session_id
         /\ pc' = "input_guardrails"

\* lambda_handler(event, context) up to the call of process_request
LambdaHandler ==
    /\ pc = "lambda"
    /\ \E event \in Events : EventHandled(event, EventRead(event))
    /\ Fresh
    /\ UNCHANGED << config, table, parked >>

\* lines 44-56: process_request returned or raised, and so does the handler
LambdaReturn ==
    /\ pc = "done"
    /\ direct' = [direct EXCEPT !.returned = TRUE, !.raised = raised,
                                !.ret = IF raised = NoExc THEN LambdaResponse(result) ELSE None]
    /\ pc' = "lambda"
    /\ UNCHANGED << config, parked, routing, faq, intent, table, user_input, session_id,
                    input_guardrail_result, filtered_input, emergency_evaluation,
                    supervisor_response, todo, dispatched, response, output_guardrail_result,
                    result, raised, calls, faults, last_eval >>

LambdaNext ==
    \/ LambdaHandler
    \/ ApplyInputGuardrails
    \/ EmergencyPrecheck
    \/ InvokeSupervisor
    \/ TicketingHandler
    \/ FaqHandler
    \/ EmergencyHandler
    \/ SupervisorPassthrough
    \/ ApplyOutputGuardrails
    \/ LambdaReturn

LambdaSpec == LambdaInit /\ [][LambdaNext]_vars


\* ------------------------------------------------------------------------
\* main.py: the interactive loop around SecureMultiAgentSystem.process_request
\* ------------------------------------------------------------------------
\* lines 49-62 of main: the system is built and session_id is None; `seen` notes
\* that a response has carried a non-empty session id
MainInit ==
    /\ config = [guardrail_id |-> Str(<<"gr-1">>), guardrail_version |-> Str(<<"1">>),
                 sns_topic_arn |-> Str(<<"arn:alerts">>),
                 agent_id |-> Str(<<"agent-1">>), agent_alias_id |-> Str(<<"alias-1">>)]
    /\ table = <<>>
    /\ direct = [op |-> "main", n |-> 0, session_id |-> None, seen |-> FALSE]
    /\ parked = NoFrame
    /\ pc = "idle"
    /\ user_input = None
    /\ session_id = None
    /\ input_guardrail_result = None
    /\ filtered_input = None
    /\ emergency_evaluation = None
    /\ supervisor_response = None
    /\ todo = <<>>
    /\ dispatched = <<>>
    /\ response = None
    /\ output_guardrail_result = None
    /\ result = None
    /\ raised = NoExc
    /\ calls = <<>>
    /\ faults = {}
    /\ routing = NoRouting
    /\ intent = None
    /\ faq = NoFaq
    /\ last_eval = NoEval

\* lines 66-70: a line is read and process_request is called with the
\* session_id of the loop
MainRequest ==
    /\ pc = "idle"
    /\ \E text \in UserInputs : user_input' = text
    /\ session_id' = direct.session_id
    /\ Fresh
    /\ pc' = "input_guardrails"
    /\ UNCHANGED << config, direct, parked, table >>

\* lines 72-74: session_id after the response
MainSessionId(loop_session_id, main_response) ==
    IF main_response.t = "dict" /\ Has(main_response, "session_id")
    THEN Get(main_response, "session_id", None)
    ELSE loop_session_id

\* lines 70-76: process_request returned and the loop goes on, or it raised and
\* the program ends
MainReturn ==
    /\ pc = "done"
    /\ IF raised # NoExc
       THEN /\ pc' = "exited"
            /\ UNCHANGED direct
       ELSE /\ pc' = "idle"
            /\ direct' = [direct EXCEPT
                             !.session_id = MainSessionId(direct.session_id, result),
                             !.seen = @ \/ (/\ result.t = "dict"
                                            /\ Truthy(Get(result, "session_id", None)))]
    /\ UNCHANGED << config, parked, routing, faq, intent, table, user_input, session_id,
                    input_guardrail_result, filtered_input, emergency_evaluation,
                    supervisor_response, todo, dispatched, response, output_guardrail_result,
                    result, raised, calls, faults, last_eval >>

\* lines 67-68: the user types exit or quit
MainExit ==
    /\ pc = "idle"
    /\ pc' = "exited"
    /\ UNCHANGED << config, direct, parked, routing, faq, intent, table, user_input, session_id,
                    input_guardrail_result, filtered_input, emergency_evaluation,
                    supervisor_response, todo, dispatched, response, output_guardrail_result,
                    result, raised, calls, faults, last_eval >>

MainNext ==
    \/ MainRequest
    \/ ApplyInputGuardrails
    \/ EmergencyPrecheck
    \/ InvokeSupervisor
    \/ TicketingHandler
    \/ FaqHandler
    \/ EmergencyHandler
    \/ SupervisorPassthrough
    \/ ApplyOutputGuardrails
    \/ MainReturn
    \/ MainExit

MainSpec == MainInit /\ [][MainNext]_vars

\* ------------------------------------------------------------------------
\* Two requests in progress on one SecureMultiAgentSystem: every thread runs
\* process_request with its own locals; the instance and the stores are shared
\* ------------------------------------------------------------------------
\* the arguments of the two calls of process_request
ConcRequests ==
    << [user_input |-> Str(<<"What", " ", "is", " ", "your", " ", "return", " ", "policy", "?">>),
        session_id |-> None],
       [user_input |-> Str(<<"Fire", " ", "spreading", "!">>), session_id |-> Str(<<"sess-1">>)] >>

\* the locals of the request that runs
Frame(req) ==
    [req |-> req, pc |-> pc, user_input |-> user_input, session_id |-> session_id,
     input_guardrail_result |-> input_guardrail_result, filtered_input |-> filtered_input,
     emergency_evaluation |-> emergency_evaluation, supervisor_response |-> supervisor_response,
     todo |-> todo, dispatched |-> dispatched, response |-> response,
     output_guardrail_result |-> output_guardrail_result, result |-> result, raised |-> raised,
     calls |-> calls, faults |-> faults, routing |-> routing, intent |-> intent, faq |-> faq,
     last_eval |-> last_eval]

\* the locals of a request that has just entered process_request
Entered(req) ==
    [req |-> req, pc |-> "input_guardrails",
     user_input |-> ConcRequests[req].user_input, session_id |-> ConcRequests[req].session_id,
     input_guardrail_result |-> None, filtered_input |-> None,
     emergency_evaluation |-> None, supervisor_response |-> None,
     todo |-> <<>>, dispatched |-> <<>>, response |-> None,
     output_guardrail_result |-> None, result |-> None, raised |-> NoExc,
     calls |-> <<>>, faults |-> {}, routing |-> NoRouting, intent |-> None, faq |-> NoFaq,
     last_eval |-> NoEval]

\* the request that runs
Running == 3 - parked.req

\* the instance has its supervisor and its notification topic configured and no
\* guardrail; both requests have entered process_request
ConcInit ==
    /\ config = [guardrail_id |-> None, guardrail_version |-> None,
                 sns_topic_arn |-> Str(<<"arn:alerts">>),
                 agent_id |-> Str(<<"agent-1">>), agent_alias_id |-> Str(<<"alias-1">>)]
    /\ table = <<>>
    /\ direct = NoDirect
    /\ parked = Entered(2)
    /\ pc = Entered(1).pc
    /\ user_input = Entered(1).user_input
    /\ session_id = Entered(1).session_id
    /\ input_guardrail_result = None
    /\ filtered_input = None
    /\ emergency_evaluation = None
    /\ supervisor_response = None
    /\ todo = <<>>
    /\ dispatched = <<>>
    /\ response = None
    /\ output_guardrail_result = None
    /\ result = None
    /\ raised = NoExc
    /\ calls = <<>>
    /\ faults = {}
    /\ routing = NoRouting
    /\ intent = None
    /\ faq = NoFaq
    /\ last_eval = NoEval

\* a switch that leaves the session id where it is, as an attribute of the
\* instance would be
Switch_SharedSession ==
    /\ parked' = [Frame(Running) EXCEPT !.session_id = parked.session_id]
    /\ pc' = parked.pc
    /\ user_input' = parked.user_input
    /\ session_id' = session_id
    /\ input_guardrail_result' = parked.input_guardrail_result
    /\ filtered_input' = parked.filtered_input
    /\ emergency_evaluation' = parked.emergency_evaluation
    /\ supervisor_response' = parked.supervisor_response
    /\ todo' = parked.todo
    /\ dispatched' = parked.dispatched
    /\ response' = parked.response
    /\ output_guardrail_result' = parked.output_guardrail_result
    /\ result' = parked.result
    /\ raised' = parked.raised
    /\ calls' = parked.calls
    /\ faults' = parked.faults
    /\ routing' = parked.routing
    /\ intent' = parked.intent
    /\ faq' = parked.faq
    /\ last_eval' = parked.last_eval
    /\ UNCHANGED << config, table, direct >>

\* the other thread is scheduled: it goes on with its own locals
Switch ==
    /\ parked' = Frame(Running)
    /\ pc' = parked.pc
    /\ user_input' = parked.user_input
    /\ session_id' = parked.session_id
    /\ input_guardrail_result' = parked.input_guardrail_result
    /\ filtered_input' = parked.filtered_input
    /\ emergency_evaluation' = parked.emergency_evaluation
    /\ supervisor_response' = parked.supervisor_response
    /\ todo' = parked.todo
    /\ dispatched' = parked.dispatched
    /\ response' = parked.response
    /\ output_guardrail_result' = parked.output_guardrail_result
    /\ result' = parked.result
    /\ raised' = parked.raised
    /\ calls' = parked.calls
    /\ faults' = parked.faults
    /\ routing' = parked.routing
    /\ intent' = parked.intent
    /\ faq' = parked.faq
    /\ last_eval' = parked.last_eval
    /\ UNCHANGED << config, table, direct >>

ConcNext ==
    \/ Switch
    \/ ApplyInputGuardrails
    \/ EmergencyPrecheck
    \/ InvokeSupervisor
    \/ TicketingHandler
    \/ FaqHandler
    \/ EmergencyHandler
    \/ SupervisorPassthrough
    \/ ApplyOutputGuardrails

ConcSpec == ConcInit /\ [][ConcNext]_vars

\* ------------------------------------------------------------------------
\* Properties
\* ------------------------------------------------------------------------
\* an operation op appears among the calls of the request
Invoked(op) == \E i \in DOMAIN calls : calls[i].op = op

\* the operations behind the input gate: the router, the supervisor, the
\* handlers with their collaborators, the output pass
BehindInputGate ==
    { "route", "supervisor.invoke_agent", "bedrock.invoke_agent", "invoke_model",
      "sns.publish", "ticketing.process_request", "faq.answer_question",
      "handle_emergency_request", "put_item", "get_item", "update_item",
      "list_objects_v2", "get_object", "output_pass" }

\* the input pass has reported blocked
InputBlocked ==
    /\ input_guardrail_result # None
    /\ Get(input_guardrail_result, "is_blocked", Bool(FALSE)) = Bool(TRUE)

\* C1: whenever the input pass reports is_blocked, nothing behind the input gate
\* is invoked for the request (router, supervisor, handlers, output pass), and
\* the response has status blocked_by_guardrails and the reasons of the filter
C1_BlockedInputStopsPipeline ==
    InputBlocked =>
        /\ \A op \in BehindInputGate : ~Invoked(op)
        /\ dispatched = <<>> /\ response = None /\ output_guardrail_result = None
        /\ pc \in {"done", "idle"}
        /\ raised = NoExc
        /\ result = Dict(("status" :> Str(<<"blocked_by_guardrails">>))
                         @@ ("message" :> InputBlockedMessage)
                         @@ ("blocked_reasons" :> input_guardrail_result.v["blocked_reasons"]))

C1_Witness ==
    /\ pc = "done"
    /\ InputBlocked
    /\ result # None
    /\ result.v["blocked_reasons"] = Violence

\* the text handed to the output pass
OutputPassText == (CHOOSE i \in DOMAIN calls : calls[i].op = "output_pass")

\* C2: when the content filter call throws, on the input or on the output pass,
\* the pass is not blocked and leaves the text unchanged, the pipeline goes on,
\* and no exception escapes process_request
C2_FilterFailsOpen ==
    /\ "input" \in faults =>
          /\ input_guardrail_result =
                 GuardrailResult(Bool(FALSE), "filtered_input", user_input, List(<<>>))
          /\ pc # "input_guardrails" => filtered_input = user_input
    /\ "output" \in faults =>
          /\ output_guardrail_result =
                 GuardrailResult(Bool(FALSE), "filtered_output", calls[OutputPassText].arg,
                                 List(<<>>))
          /\ result # None
    /\ faults # {} => raised = NoExc

\* the runs of the handlers in the request: the entries of the three handler
\* methods and the passthrough branch
HandlerRuns ==
    Count(calls, "ticketing.process_request") + Count(calls, "faq.answer_question")
    + Count(calls, "handle_emergency_request")
    + Cardinality({i \in DOMAIN dispatched : dispatched[i].handler = "supervisor"})

\* the router has returned a response
RouterReturned == pc \in {"output_guardrails", "done", "idle"} /\ response # None

\* C3: in every request at most one handler runs, at most once, and the
\* router's response is the output of that one handler
C3_DispatchAtMostOnce ==
    /\ HandlerRuns <= 1
    /\ Len(dispatched) <= 1
    /\ Len(todo) <= 1
    /\ RouterReturned =>
          /\ HandlerRuns = 1
          /\ Len(dispatched) = 1
          /\ response = dispatched[1].output

C3_Witness ==
    /\ pc = "done"
    /\ Len(dispatched) = 1
    /\ dispatched[1].handler = "ticketing"
    /\ response = dispatched[1].output

\* the emergency pre-check ran the evaluator and got is_emergency = true
PrecheckEmergency ==
    /\ emergency_evaluation # None
    /\ Get(emergency_evaluation, "is_emergency", Bool(FALSE)) = Bool(TRUE)

\* C4: when the text holds an emergency keyword and the pre-check evaluation
\* has is_emergency = true, the router returns the response of the emergency
\* handler and the supervisor is never invoked in the request
C4_EmergencyShortCircuit ==
    PrecheckEmergency =>
        /\ HasEmergencyKeyword(filtered_input)
        /\ ~Invoked("supervisor.invoke_agent") /\ ~Invoked("bedrock.invoke_agent")
        /\ supervisor_response = None
        /\ raised = NoExc
        /\ pc \notin {"route", "supervisor"}
        /\ pc = "dispatch" => todo = <<"emergency">>
        /\ pc # "dispatch" =>
              /\ Len(dispatched) = 1
              /\ dispatched[1].handler = "emergency"
              /\ response = dispatched[1].output
              /\ response.v["status"] \in {Str(<<"emergency_escalated">>),
                                           Str(<<"emergency_identified">>),
                                           Str(<<"not_emergency">>)}

C4_Witness ==
    /\ pc = "done"
    /\ PrecheckEmergency
    /\ user_input = Str(<<"help", "ful">>)
    /\ Len(dispatched) = 1
    /\ dispatched[1].handler = "emergency"

\* C5: the router always returns a value and never raises, whatever the text,
\* the configuration and the outcome of the supervisor call; a failure of the
\* supervisor call is a result with an error field
C5_RouterNeverRaises ==
    /\ raised = NoExc
    /\ (pc \in {"done", "idle"} /\ Invoked("route")) => response # None

\* the evaluation of the last evaluate_emergency call
LastEvaluated == last_eval.evaluation # None
LastIsEmergency == Get(last_eval.evaluation, "is_emergency", Bool(FALSE)) = Bool(TRUE)
LastSeverityHigh ==
    Get(last_eval.evaluation, "severity", None) \in {Str(<<"high">>), Str(<<"critical">>)}
ChannelConfigured == config.sns_topic_arn # None

\* C6: an evaluate call whose evaluation has is_emergency = true and severity
\* high or critical, with the topic configured, publishes exactly once, to the
\* configured topic with a subject holding EMERGENCY ALERT, and returns the
\* evaluation
C6_EscalatesExactlyOnce ==
    (LastEvaluated /\ LastIsEmergency /\ LastSeverityHigh /\ ChannelConfigured) =>
        /\ Count(last_eval.calls, "sns.publish") = 1
        /\ \A i \in DOMAIN last_eval.calls :
              last_eval.calls[i].op = "sns.publish" =>
                  /\ last_eval.calls[i].arg.v["TopicArn"] = config.sns_topic_arn
                  /\ Contains(last_eval.calls[i].arg.v["Subject"].v, <<"EMERGENCY", " ", "ALERT">>)
        /\ Has(last_eval.evaluation, "recommended_actions")

C6_Witness ==
    /\ LastEvaluated /\ LastIsEmergency /\ ChannelConfigured
    /\ Get(last_eval.evaluation, "severity", None) = Str(<<"high">>)
    /\ Count(last_eval.calls, "sns.publish") = 1

\* C7: an evaluate call publishes nothing when is_emergency is false, when the
\* severity is neither high nor critical, or when no topic is configured; without
\* topic the evaluation of the model is returned all the same
C7_NoNotificationOtherwise ==
    (LastEvaluated /\ (~LastIsEmergency \/ ~LastSeverityHigh \/ ~ChannelConfigured)) =>
        /\ Count(last_eval.calls, "sns.publish") = 0
        /\ Count(last_eval.calls, "invoke_model") = 1

C7_Witness ==
    /\ LastEvaluated /\ LastIsEmergency /\ LastSeverityHigh /\ ~ChannelConfigured
    /\ Count(last_eval.calls, "sns.publish") = 0

\* the output pass has reported blocked
OutputBlocked ==
    /\ output_guardrail_result # None
    /\ Get(output_guardrail_result, "is_blocked", Bool(FALSE)) = Bool(TRUE)

\* C8: when the output pass reports blocked, the returned response is the fixed
\* one, with status output_blocked_by_guardrails and the reasons of the filter,
\* and holds nothing of the router's response
C8_BlockedOutputDiscardsResponse ==
    OutputBlocked =>
        /\ result = Dict(("status" :> Str(<<"output_blocked_by_guardrails">>))
                         @@ ("message" :> OutputBlockedMessage)
                         @@ ("blocked_reasons" :> output_guardrail_result.v["blocked_reasons"]))
        /\ raised = NoExc

C8_Witness ==
    /\ pc = "done"
    /\ OutputBlocked
    /\ Has(response, "answer") /\ Has(response, "sources")
    /\ result.v["blocked_reasons"] = Violence

\* the policy identifier or its version is absent
GuardrailsAbsent == config.guardrail_id = None \/ config.guardrail_version = None

\* C9: without policy identifier or version, both passes report not blocked,
\* return the text unchanged with no reasons, and never call the content filter
C9_UnconfiguredFilterPassesThrough ==
    GuardrailsAbsent =>
        /\ ~Invoked("apply_guardrail")
        /\ input_guardrail_result # None =>
              input_guardrail_result =
                  Dict(("is_blocked" :> Bool(FALSE)) @@ ("filtered_input" :> user_input)
                       @@ ("blocked_reasons" :> List(<<>>)))
        /\ output_guardrail_result # None =>
              output_guardrail_result =
                  Dict(("is_blocked" :> Bool(FALSE))
                       @@ ("filtered_output" :> calls[OutputPassText].arg)
                       @@ ("blocked_reasons" :> List(<<>>)))

C9_Witness ==
    /\ pc = "done"
    /\ config.guardrail_id # None /\ config.guardrail_version = None
    /\ output_guardrail_result # None
    /\ result = response

\* the field of the router's response that carries its text, filtered_response
\* when it has none of the three
TextField ==
    IF "message" \in DOMAIN response.v THEN "message"
    ELSE IF "answer" \in DOMAIN response.v THEN "answer"
    ELSE IF "response" \in DOMAIN response.v THEN "response"
    ELSE "filtered_response"

\* C10: the output pass is given message, else answer, else response, else the
\* serialization of the router's response; when the output is not blocked the
\* filtered text is written to that same field, or to a new field when there
\* was none of the three, and every other field is returned unchanged
C10_TextFieldRoundTrip ==
    output_guardrail_result # None =>
        /\ calls[OutputPassText].arg =
              (IF TextField \in DOMAIN response.v THEN response.v[TextField]
               ELSE Str(Dumps(response)))
        /\ ~OutputBlocked =>
              /\ DOMAIN result.v = DOMAIN response.v \cup {TextField}
              /\ result.v[TextField] = output_guardrail_result.v["filtered_output"]
              /\ \A k \in DOMAIN response.v \ {TextField} : result.v[k] = response.v[k]

C10_Witness ==
    /\ pc = "done"
    /\ output_guardrail_result # None /\ ~OutputBlocked
    /\ TextField = "answer"
    /\ response.v["answer"] # Redacted
    /\ result.v["answer"] = Redacted
    /\ result.v["sources"] = response.v["sources"]

\* the three shapes of a response of process_request
BlockedShape ==
    /\ DOMAIN result.v = {"status", "message", "blocked_reasons"}
    /\ result.v["status"] = Str(<<"blocked_by_guardrails">>)
OutputBlockedShape ==
    /\ DOMAIN result.v = {"status", "message", "blocked_reasons"}
    /\ result.v["status"] = Str(<<"output_blocked_by_guardrails">>)
NormalizedShape == {"message", "answer", "response"} \cap DOMAIN result.v # {}

\* C11: every response returned by process_request has the blocked shape, the
\* output-blocked shape, or holds at least one of message, answer, response,
\* whichever handler the router dispatched to
C11_ResponseShapes ==
    result # None => (BlockedShape \/ OutputBlockedShape \/ NormalizedShape)

\* the handlers other than the passthrough
RealHandlers == {"ticketing.process_request", "faq.answer_question", "handle_emergency_request"}

\* the text given to the router holds no emergency keyword and no routing keyword
UserTextQuiet ==
    /\ filtered_input # None
    /\ ~HasEmergencyKeyword(filtered_input)
    /\ \A k \in RoutingKeywords : ~Contains(Lower(filtered_input.v), k)

\* C12 as stated: for user text without emergency keyword and without routing
\* keyword the decision is supervisor and no ticketing, FAQ or emergency handler
\* is invoked
C12_QuietUserTextPassesThrough ==
    UserTextQuiet =>
        /\ routing.agent \in {None, Str(<<"supervisor">>)}
        /\ \A op \in RealHandlers : ~Invoked(op)

\* a supervisor reply without signal has been routed
QuietReplyRouted == routing.agent # None /\ routing.quiet

\* C12 amended: when the reply of the supervisor holds no routing JSON and no
\* routing keyword, the decision is supervisor, the passthrough is the handler
\* that runs and no ticketing, FAQ or emergency handler is invoked
C12_QuietReplyPassesThrough ==
    QuietReplyRouted =>
        /\ routing.agent = Str(<<"supervisor">>)
        /\ \A op \in RealHandlers : ~Invoked(op)
        /\ pc = "dispatch" => todo = <<"supervisor">>
        /\ pc # "dispatch" => (Len(dispatched) = 1 /\ dispatched[1].handler = "supervisor")

C12_Witness ==
    /\ pc = "done"
    /\ QuietReplyRouted
    /\ UserTextQuiet
    /\ Len(dispatched) = 1 /\ dispatched[1].handler = "supervisor"
    /\ response.v["response"] = Str(<<"Hello">>)

RECURSIVE ReplyText(_, _)
\* the contents of the messages of the supervisor's reply from the i-th on, joined
ReplyText(messages, i) ==
    IF i > Len(messages) THEN <<>>
    ELSE Get(messages[i], "content", Str(<<>>)).v \o ReplyText(messages, i + 1)

\* C13: the passthrough returns the whole reply text of the supervisor and the
\* session identifier the supervisor returned, both unmodified
C13_PassthroughUnmodified ==
    [][(pc = "dispatch" /\ todo # <<>> /\ Head(todo) = "supervisor" /\ pc' # "dispatch") =>
          /\ response'.v["session_id"] = Get(supervisor_response, "sessionId", None)
          /\ response'.v["response"] =
                 Str(ReplyText(Get(supervisor_response, "messages", List(<<>>)).v, 1))]_vars

\* the ticket-store operations
StoreOps == {"put_item", "get_item", "update_item"}

\* the actions the ticketing handler knows
KnownActions == {Str(<<"create_ticket">>), Str(<<"get_ticket_status">>), Str(<<"cancel_ticket">>)}

\* the ticketing handler got an intent that names get_ticket_status or
\* cancel_ticket without ticket_id, or an action it does not know
HandlerLevelFailure ==
    /\ intent # None
    /\ "action" \in DOMAIN intent.v
    /\ \/ /\ intent.v["action"] \in {Str(<<"get_ticket_status">>), Str(<<"cancel_ticket">>)}
          /\ "ticket_id" \notin DOMAIN intent.v
       \/ intent.v["action"] \notin KnownActions

\* C14: for a get_ticket_status or cancel_ticket intent without ticket_id, and for
\* an unknown action, the ticketing handler raises nothing, returns success =
\* false with an error, and performs no ticket-store operation
C14_StructuredHandlerFailure ==
    HandlerLevelFailure =>
        /\ raised = NoExc
        /\ \A op \in StoreOps : ~Invoked(op)
        /\ Len(dispatched) = 1 /\ dispatched[1].handler = "ticketing"
        /\ dispatched[1].output.v["success"] = Bool(FALSE)
        /\ "error" \in DOMAIN dispatched[1].output.v
        /\ dispatched[1].output.v["error"].v # <<>>

C14_Witness ==
    /\ pc = "done"
    /\ HandlerLevelFailure
    /\ intent.v["action"] = Str(<<"get_ticket_status">>)
    /\ response.v["error"] = Str(<<"No ticket ID provided">>)

\* C15: for every reply of the model the intent handed to the ticketing handler
\* has an action among create_ticket, get_ticket_status, cancel_ticket, unknown,
\* and no error of the classification reaches the caller of the handler
C15_IntentAlwaysValid ==
    intent # None =>
        /\ "action" \in DOMAIN intent.v
        /\ intent.v["action"] \in KnownActions \cup {Str(<<"unknown">>)}
        /\ raised # "KeyError"

\* C16: evaluate_emergency raises nothing: when the model call throws or its reply
\* does not parse it returns is_emergency = false, severity = unknown, no
\* recommended actions and a reasoning that names the error, and publishes
\* nothing; when sns.publish throws the evaluation is returned all the same
C16_EvaluateNeverRaises ==
    /\ (LastEvaluated /\ last_eval.fault # "none") =>
          /\ last_eval.evaluation.v["is_emergency"] = Bool(FALSE)
          /\ last_eval.evaluation.v["severity"] = Str(<<"unknown">>)
          /\ last_eval.evaluation.v["recommended_actions"] = List(<<>>)
          /\ last_eval.evaluation.v["reasoning"].v # <<>>
          /\ Count(last_eval.calls, "sns.publish") = 0
    /\ last_eval.pub = "throws" =>
          /\ LastEvaluated /\ LastIsEmergency /\ LastSeverityHigh
          /\ last_eval.fault = "none"

C16_Witness ==
    /\ pc = "done"
    /\ LastEvaluated
    /\ last_eval.fault = "parse"
    /\ last_eval.evaluation.v["reasoning"] = Str(<<"Error: ", "JSONDecodeError">>)
    /\ last_eval.calls = <<Call("invoke_model", Str(<<"emergency">>))>>

\* handle_emergency_request has returned; last_eval holds its evaluation
EmergencyHandlerReturned ==
    /\ Len(dispatched) = 1 /\ dispatched[1].handler = "emergency"
    /\ LastEvaluated

\* the status of the response of the emergency handler
HandledStatus == dispatched[1].output.v["status"]

\* C17: handle_emergency_request returns emergency_escalated exactly when the
\* evaluation has is_emergency = true and severity high or critical,
\* emergency_identified exactly when is_emergency = true with another severity,
\* not_emergency exactly when is_emergency is false; the two emergency tiers
\* carry the recommended actions and the severity of the evaluation
C17_HandleStatusTiers ==
    EmergencyHandlerReturned =>
        /\ HandledStatus = Str(<<"emergency_escalated">>) <=> (LastIsEmergency /\ LastSeverityHigh)
        /\ HandledStatus = Str(<<"emergency_identified">>) <=> (LastIsEmergency /\ ~LastSeverityHigh)
        /\ HandledStatus = Str(<<"not_emergency">>) <=> ~LastIsEmergency
        /\ LastIsEmergency =>
              /\ dispatched[1].output.v["actions"] =
                     Get(last_eval.evaluation, "recommended_actions", List(<<>>))
              /\ dispatched[1].output.v["severity"] = Get(last_eval.evaluation, "severity", None)

C17_Witness ==
    /\ pc = "done"
    /\ EmergencyHandlerReturned
    /\ HandledStatus = Str(<<"emergency_identified">>)
    /\ last_eval.evaluation.v["severity"] = Str(<<"medium">>)
    /\ dispatched[1].output.v["actions"] # List(<<>>)

\* the pre-check of the router got is_emergency = true with severity high for a
\* text with an emergency keyword, and the router has returned
HighEmergencyRouted ==
    /\ PrecheckEmergency
    /\ HasEmergencyKeyword(filtered_input)
    /\ Get(emergency_evaluation, "severity", None) = Str(<<"high">>)
    /\ RouterReturned

FaqInvoke == Call("invoke_model", Str(<<"faq">>))

\* the calls of the request to the model of the FAQ handler
FaqModelCalls == Cardinality({i \in DOMAIN calls : calls[i] = FaqInvoke})

\* C19: when retrieval returns no documents, answer_question does not call the
\* model and returns the fixed refusal with an empty list of sources
C19_NoDocumentsNoModelCall ==
    faq.docs = <<>> =>
        /\ FaqModelCalls = 0
        /\ raised = NoExc
        /\ Len(dispatched) = 1 /\ dispatched[1].handler = "faq"
        /\ dispatched[1].output =
               Dict(("answer" :> Str(<<"I couldn't find any relevant information in the ",
                                       "knowledge base", ".">>))
                    @@ ("sources" :> List(<<>>)))

C19_Witness ==
    /\ pc = "done"
    /\ faq.docs = <<>>
    /\ Invoked("get_object")
    /\ response.v["sources"] = List(<<>>)

\* retrieval returned documents and the model call of answer_question succeeded
FaqAnswered == faq.docs # None /\ faq.docs # <<>> /\ ~faq.reply.throws

\* C20: when retrieval returns documents and the model call succeeds,
\* answer_question calls the model exactly once and returns the raw text of the
\* model as answer and the keys of the retrieved documents, in their ranked
\* order, as sources
C20_AnswerFromModelWithSources ==
    FaqAnswered =>
        /\ FaqModelCalls = 1
        /\ raised = NoExc
        /\ Len(dispatched) = 1 /\ dispatched[1].handler = "faq"
        /\ DOMAIN dispatched[1].output.v = {"answer", "sources"}
        /\ dispatched[1].output.v["answer"] =
               IF "content" \in DOMAIN faq.reply.body.v
               THEN faq.reply.body.v["content"].v[1].v["text"]
               ELSE Str(<<>>)
        /\ Len(dispatched[1].output.v["sources"].v) = Len(faq.docs)
        /\ \A i \in DOMAIN faq.docs :
              dispatched[1].output.v["sources"].v[i] = Str(faq.docs[i].source)
        /\ \A i, j \in DOMAIN faq.docs : i < j => faq.docs[i].relevance >= faq.docs[j].relevance

C20_Witness ==
    /\ pc = "done"
    /\ FaqAnswered
    /\ response.v["answer"] = Str(<<"You can ", "return", " items within 30 days.">>)
    /\ response.v["sources"] = List(<< Str(<<"kb/", "returns", ".txt">>),
                                       Str(<<"kb/", "shipping", ".md">>) >>)

\* retrieve_relevant_documents was called directly and returned
RetrieveReturned ==
    direct.op = "retrieve_relevant_documents" /\ direct.out.raised = NoExc

\* the keys of the listing handed to the call, in the order of the store
ListedKeys ==
    IF direct.listing.throws THEN <<>> ELSE Get(direct.listing.body, "Contents", List(<<>>)).v

\* the place of a key in the listing
ListedAt(key) == CHOOSE i \in DOMAIN ListedKeys : ListedKeys[i] = key

\* the distinct lowercase tokens that the query and a text share
SharedTokens(text) == Cardinality(Terms(direct.query.v) \cap Terms(text))

\* C21: retrieve_relevant_documents returns only documents whose key ends in
\* .txt, .md or .json and whose relevance, the number of distinct lowercase
\* tokens shared with the query, is positive; sorted by relevance descending,
\* ties in listing order; at most max_docs entries; empty when the query shares
\* no token with any document
C21_RetrievalRanked ==
    RetrieveReturned =>
        LET docs == direct.out.docs
        IN  /\ Len(docs) <= direct.max_docs
            /\ \A i \in DOMAIN docs :
                  /\ docs[i].source[Len(docs[i].source)] \in {".txt", ".md", ".json"}
                  /\ \E k \in DOMAIN ListedKeys : ListedKeys[k] = docs[i].source
                  /\ docs[i].relevance > 0
                  /\ docs[i].relevance = SharedTokens(docs[i].content)
            /\ \A i, j \in DOMAIN docs :
                  i < j => \/ docs[i].relevance > docs[j].relevance
                           \/ /\ docs[i].relevance = docs[j].relevance
                              /\ ListedAt(docs[i].source) < ListedAt(docs[j].source)
            /\ (\A k \in DOMAIN ListedKeys : SharedTokens(DocBody(ListedKeys[k])) = 0)
                  => docs = <<>>

\* three documents are listed before the cap is reached; the two of relevance 2
\* come first, in the order of the listing
C21_Witness ==
    /\ RetrieveReturned
    /\ direct.max_docs = 3
    /\ Len(ListedKeys) = 6
    /\ Len(direct.out.docs) = 3
    /\ direct.out.docs[1].source = <<"kb/", "returns", ".txt">>
    /\ direct.out.docs[2].source = <<"kb/", "faq", ".md">>
    /\ direct.out.docs[3].source = <<"kb/", "shipping", ".md">>
    /\ direct.out.docs[1].relevance = 2 /\ direct.out.docs[2].relevance = 2
    /\ direct.out.docs[3].relevance = 1

\* the step is a call of op on the TicketingAgent
Calls(op) == direct'.op = op /\ direct'.n = direct.n + 1

\* the ticket_id attributes of the records of a table
IdsOf(tbl) == { Get(tbl[k], "ticket_id", None) : k \in DOMAIN tbl }

\* C22: create_ticket returns a record with the subject, description and
\* priority of the arguments, status open, the id just drawn, created_at equal
\* to updated_at, after exactly one store write that persists it; it returns
\* null when the store write fails
C22_CreateReturnsRecord ==
    [][Calls("create_ticket") =>
          /\ direct'.calls = <<Call("put_item", direct'.calls[1].arg)>>
          /\ direct'.raised = NoExc
          /\ IF direct'.outcome = "ok"
             THEN /\ direct'.ret # None
                  /\ direct'.ret.v["subject"] = direct'.args.subject
                  /\ direct'.ret.v["description"] = direct'.args.description
                  /\ direct'.ret.v["priority"] = direct'.args.priority
                  /\ direct'.ret.v["status"] = Str(<<"open">>)
                  /\ direct'.ret.v["ticket_id"] = Str(<<direct'.ticket_id>>)
                  /\ direct'.ret.v["ticket_id"] \notin IdsOf(table)
                  /\ direct'.ret.v["created_at"] = direct'.ret.v["updated_at"]
                  /\ direct'.calls[1].arg = direct'.ret
                  /\ table'[direct'.ticket_id] = direct'.ret
             ELSE /\ direct'.ret = None
                  /\ table' = table]_vars

\* the fields that the round trip compares
RoundTripFields == {"subject", "description", "priority", "status"}

\* C23: after a successful create, get with the returned id yields a record
\* with the same subject, description and priority and status open; get returns
\* null for an id absent from the store and when the store read fails
C23_CreateGetRoundTrip ==
    [][Calls("get_ticket_status") =>
          /\ direct'.raised = NoExc
          /\ IF direct'.outcome = "ok" /\ direct'.ticket_id.v[1] \in DOMAIN table
             THEN /\ direct'.ret # None
                  /\ (direct.op = "create_ticket" /\ direct.ret # None
                      /\ direct'.ticket_id = direct.ret.v["ticket_id"])
                        => /\ \A f \in RoundTripFields : direct'.ret.v[f] = direct.ret.v[f]
                           /\ direct'.ret.v["status"] = Str(<<"open">>)
             ELSE direct'.ret = None]_vars

\* the attributes cancel_ticket may write
CancelWrites == {"status", "updated_at", "cancellation_reason"}

\* C24: cancel_ticket issues exactly one store update keyed by ticket_id, which
\* sets status to cancelled and updated_at to now, and cancellation_reason only
\* when a reason is given; every other field of the ticket is preserved
C24_CancelFrame ==
    [][Calls("cancel_ticket") =>
          LET id == direct'.ticket_id.v[1]
          IN  /\ direct'.calls = <<Call("update_item", direct'.ticket_id)>>
              /\ \A k \in DOMAIN table \ {id} : k \in DOMAIN table' /\ table'[k] = table[k]
              /\ IF direct'.outcome = "ok"
                 THEN /\ table'[id].v["status"] = Str(<<"cancelled">>)
                      /\ table'[id].v["updated_at"] = direct'.now
                      /\ Truthy(direct'.reason) =>
                            table'[id].v["cancellation_reason"] = direct'.reason
                      /\ ~Truthy(direct'.reason) /\ id \in DOMAIN table =>
                            Get(table'[id], "cancellation_reason", None)
                               = Get(table[id], "cancellation_reason", None)
                      /\ id \in DOMAIN table =>
                            /\ DOMAIN table[id].v \subseteq DOMAIN table'[id].v
                            /\ DOMAIN table'[id].v \subseteq DOMAIN table[id].v \cup CancelWrites
                            /\ \A f \in DOMAIN table[id].v \ CancelWrites :
                                  table'[id].v[f] = table[id].v[f]
                 ELSE table' = table]_vars

\* an open ticket with an assignee was cancelled with a reason at a later time
C24_Witness ==
    /\ direct.op = "cancel_ticket" /\ direct.outcome = "ok"
    /\ direct.ticket_id = Str(<<"T1">>)
    /\ "T1" \in DOMAIN table
    /\ table["T1"].v["status"] = Str(<<"cancelled">>)
    /\ Get(table["T1"], "cancellation_reason", None) = Str(<<"duplicate">>)
    /\ table["T1"].v["assigned_to"] = Str(<<"ann">>)
    /\ table["T1"].v["emergency"] = Bool(TRUE)
    /\ table["T1"].v["created_at"] # table["T1"].v["updated_at"]

\* C25: cancel_ticket returns false exactly when the store update fails and
\* true otherwise, also for an id that was never created
C25_CancelReturnsUpdateOutcome ==
    [][Calls("cancel_ticket") =>
          /\ direct'.raised = NoExc
          /\ direct'.ret = Bool(direct'.outcome = "ok")
          /\ (direct'.ticket_id.v[1] \notin DOMAIN table /\ direct'.outcome = "ok")
                => direct'.ret = Bool(TRUE)]_vars

\* C26: ticket_id is immutable and unique: no two records share a ticket_id, no
\* operation changes the ticket_id of a record, no operation removes a record,
\* and the id of a created record is not the id of a record of the store
C26_TicketIdImmutableUnique ==
    [][/\ \A k \in DOMAIN table :
             /\ k \in DOMAIN table'
             /\ Get(table'[k], "ticket_id", None) = Get(table[k], "ticket_id", None)
       /\ \A j, k \in DOMAIN table' :
             j # k => Get(table'[j], "ticket_id", None) # Get(table'[k], "ticket_id", None)
       /\ \A k \in DOMAIN table' : Get(table'[k], "ticket_id", None) = Str(<<k>>)
       /\ (Calls("create_ticket") /\ direct'.ret # None) =>
             /\ direct'.ret.v["ticket_id"] \notin IdsOf(table)
             /\ \A k \in DOMAIN table : table'[k] = table[k]]_vars

\* two tickets were created and the first cancelled
C26_Witness ==
    /\ direct.op = "cancel_ticket" /\ direct.outcome = "ok" /\ direct.n = 3
    /\ DOMAIN table = {"T1", "T2"}
    /\ table["T1"].v["status"] = Str(<<"cancelled">>)
    /\ table["T2"].v["status"] = Str(<<"open">>)

\* the request of the last event carries no input: it has no body, a null
\* body, or a JSON object whose input is missing, null or empty
InputMissing ==
    /\ direct.op = "lambda_handler"
    /\ \/ ~Has(direct.event, "body")
       \/ direct.event.v["body"] = None
       \/ /\ Loads(direct.event.v["body"].v).ok
          /\ Loads(direct.event.v["body"].v).val.t = "dict"
          /\ Get(Loads(direct.event.v["body"].v).val, "input", None) \in {None, Str(<<>>)}

\* C27: a request whose input is missing or empty gets the input-validation
\* error response at once, a response that normal processing never gives, and
\* no collaborator is called
C27_MissingInputRejected ==
    /\ InputMissing =>
          /\ direct.returned
          /\ direct.raised = NoExc
          /\ direct.ret # None
          /\ direct.ret.v["statusCode"] = Num(400)
          /\ direct.ret.v["body"] = Str(<<"{", "\"", "error", "\"", ":", " ",
                                          "\"", "No input provided", "\"", "}">>)
          /\ calls = <<>>
    /\ (direct.op = "lambda_handler" /\ calls # <<>> /\ direct.returned /\ direct.ret # None)
          => direct.ret.v["statusCode"] = Num(200)

\* the operations whose argument is the text of the request
TextOps ==
    {"route", "supervisor.invoke_agent", "ticketing.process_request", "faq.answer_question",
     "handle_emergency_request"}

\* the request the supervisor service receives for the arguments of a call of
\* process_request
OwnSupervisorRequest(own) ==
    IF own.session_id = None
    THEN Dict("inputText" :> own.user_input)
    ELSE Dict(("inputText" :> own.user_input) @@ ("sessionId" :> own.session_id))

\* the calls of a log carry the text and the session id of the request `own`
CallsAreOwn(log, own) ==
    \A i \in DOMAIN log :
        /\ log[i].op \in TextOps => log[i].arg = own.user_input
        /\ log[i].op = "bedrock.invoke_agent" => log[i].arg = OwnSupervisorRequest(own)

\* C28: two requests interleaved on one pipeline do not interfere in-process:
\* no step writes the attributes of the instance; a step of one request leaves
\* the locals of the other as they are; every request goes on with the text and
\* the session id it was called with and hands these, and no others, to its
\* collaborators; the ticket store, written by the ticketing handler only, is
\* the one thing a request sees of the other
C28_RequestsDoNotInterfere ==
    [][/\ config' = config
       /\ parked'.req = parked.req => parked' = parked
       /\ parked'.req # parked.req =>
             /\ parked'.user_input = user_input /\ parked'.session_id = session_id
             /\ parked'.calls = calls /\ parked'.routing = routing
             /\ parked'.response = response /\ parked'.result = result
             /\ routing' = parked.routing /\ response' = parked.response
             /\ result' = parked.result /\ calls' = parked.calls
       /\ user_input' = ConcRequests[3 - parked'.req].user_input
       /\ session_id' = ConcRequests[3 - parked'.req].session_id
       /\ CallsAreOwn(calls', ConcRequests[3 - parked'.req])
       /\ CallsAreOwn(parked'.calls, ConcRequests[parked'.req])
       /\ table' # table =>
             /\ pc = "dispatch" /\ todo # <<>> /\ Head(todo) = "ticketing"
             /\ parked' = parked]_vars

\* both requests have returned; the second one, called with a session id, asked
\* the supervisor with it and was answered with the ticket the first one wrote
C28_Witness ==
    /\ parked.pc = "done" /\ pc = "done" /\ Running = 2
    /\ \E i \in DOMAIN calls : calls[i].op = "bedrock.invoke_agent"
                               /\ calls[i].arg = OwnSupervisorRequest(ConcRequests[2])
    /\ \E i \in DOMAIN parked.calls : parked.calls[i].op = "bedrock.invoke_agent"
                                      /\ parked.calls[i].arg = OwnSupervisorRequest(ConcRequests[1])
    /\ Count(parked.calls, "update_item") = 1
    /\ Count(calls, "update_item") = 0
    /\ result # None
    /\ Get(result, "ticket", None) # None
    /\ Get(result, "ticket", None) = table["T1"]

\* where the operation op stands in a log
Positions(log, op) == {i \in DOMAIN log : log[i].op = op}

\* C29: the order of the pipeline is fixed. The input pass comes first and,
\* once the request is past it, has been applied; the router is entered at most
\* once, behind nothing but the input pass, only when the input pass did not
\* block, and with the filtered text of the input pass; the output pass is
\* entered at most once, only once the router has returned, with the text
\* extracted from the router's response; behind the output pass stands nothing
\* but its own call of the guardrail, and the request is over
C29_PipelineOrder ==
    /\ pc \notin {"idle", "input_guardrails"} => input_guardrail_result # None
    /\ calls # <<>> => input_guardrail_result # None
    /\ Cardinality(Positions(calls, "route")) <= 1
    /\ \A r \in Positions(calls, "route") :
          /\ r <= 2
          /\ \A i \in 1..(r - 1) : calls[i].op = "apply_guardrail"
          /\ ~Truthy(Get(input_guardrail_result, "is_blocked", Bool(FALSE)))
          /\ calls[r].arg = Get(input_guardrail_result, "filtered_input", user_input)
    /\ Positions(calls, "route") = {} /\ calls # <<>> =>
          /\ Len(calls) = 1 /\ calls[1].op = "apply_guardrail"
          /\ pc \in {"route", "done", "idle"}
    /\ Cardinality(Positions(calls, "output_pass")) <= 1
    /\ \A o \in Positions(calls, "output_pass") :
          /\ \E r \in Positions(calls, "route") : r < o
          /\ todo = <<>> /\ dispatched # <<>> /\ raised = NoExc
          /\ calls[o].arg = _extract_response_text(response)
          /\ Len(calls) <= o + 1
          /\ \A i \in (o + 1)..Len(calls) : calls[i].op = "apply_guardrail"
          /\ pc \in {"done", "idle"}

\* a request whose text the input pass rewrote went through the router with
\* the rewritten text and through the output pass
C29_Witness ==
    /\ pc = "done" /\ raised = NoExc
    /\ Len(calls) >= 4
    /\ calls[1].op = "apply_guardrail"
    /\ calls[2] = Call("route", Redacted)
    /\ user_input # Redacted
    /\ calls[Len(calls)].op = "apply_guardrail"
    /\ calls[Len(calls) - 1] = Call("output_pass", _extract_response_text(response))

\* the JSON objects with an `agent` key that stand in a text
AgentObjectsIn(content) ==
    { Loads(SubSeq(content, a, b)).val :
        <<a, b>> \in { <<x, y>> \in (DOMAIN content) \X (DOMAIN content) :
                          /\ x <= y /\ content[x] = "{" /\ content[y] = "}"
                          /\ Loads(SubSeq(content, x, y)).ok
                          /\ Loads(SubSeq(content, x, y)).val.t = "dict"
                          /\ Has(Loads(SubSeq(content, x, y)).val, "agent") } }

\* the JSON objects with an `agent` key in the fragments of a supervisor's reply
AgentObjects(reply) ==
    UNION { AgentObjectsIn(Get(Get(reply, "messages", List(<<>>)).v[i],
                               "content", Str(<<>>)).v) :
              i \in DOMAIN Get(reply, "messages", List(<<>>)).v }

RECURSIVE KeywordsOnly(_, _, _)
\* the decision of keyword matching alone over the fragments from the i-th on
KeywordsOnly(messages, i, decision) ==
    IF i > Len(messages) THEN decision
    ELSE KeywordsOnly(messages, i + 1,
                      KeywordDecision(Lower(Get(messages[i], "content", Str(<<>>)).v), decision))

ExtractReturned == direct.op = "_extract_routing_decision"

\* C30: when a JSON object with an `agent` key stands in some fragment of the
\* supervisor's reply, the routing decision is such an object, whatever routing
\* keywords the fragments hold; the decision is that of keyword matching only
\* when no fragment holds such an object
C30_JsonObjectPreferred ==
    ExtractReturned =>
        /\ AgentObjects(direct.supervisor_response) # {} =>
              direct.out \in AgentObjects(direct.supervisor_response)
        /\ AgentObjects(direct.supervisor_response) = {} =>
              direct.out = KeywordsOnly(direct.supervisor_response.v["messages"].v, 1,
                                        Dict("agent" :> Str(<<"supervisor">>)))

\* the fragments of the reply handed to _extract_routing_decision
Fragments == [i \in DOMAIN direct.supervisor_response.v["messages"].v |->
                direct.supervisor_response.v["messages"].v[i].v["content"].v]

\* the agent the keywords of one fragment name; None when it holds none of them
KeywordAgent(content) ==
    IF Contains(Lower(content), <<"ticket">>) THEN Str(<<"ticket", "ing">>)
    ELSE IF \E k \in {<<"question">>, <<"faq">>, <<"knowledge", " ", "base">>} :
               Contains(Lower(content), k)
    THEN Str(<<"faq">>)
    ELSE IF \E k \in {<<"emergency">>, <<"urgent">>} : Contains(Lower(content), k)
    THEN Str(<<"emergency">>)
    ELSE None

\* no fragment gave a routing object: the decision is that of the keyword fallback
KeywordFallback ==
    /\ ExtractReturned
    /\ \A i \in DOMAIN Fragments :
          ~(RoutingInfo(Fragments[i]).ok /\ Has(RoutingInfo(Fragments[i]).val, "agent"))

\* C31: in the keyword fallback the decision names the agent of the last
\* fragment that holds a routing keyword (ticket before question, faq and
\* knowledge base, these before emergency and urgent, in any case of letters);
\* fragments without keyword change nothing, and with no keyword at all the
\* decision stays with the supervisor
C31_LastMatchingFragmentWins ==
    KeywordFallback =>
        /\ DOMAIN direct.out.v = {"agent"}
        /\ \A i \in DOMAIN Fragments :
              /\ KeywordAgent(Fragments[i]) # None
              /\ \A j \in DOMAIN Fragments : j > i => KeywordAgent(Fragments[j]) = None
              => direct.out.v["agent"] = KeywordAgent(Fragments[i])
        /\ (\A i \in DOMAIN Fragments : KeywordAgent(Fragments[i]) = None)
              => direct.out.v["agent"] = Str(<<"supervisor">>)

\* a reply whose first fragment names the ticketing agent and whose second,
\* in capitals, the emergency agent
C31_Witness ==
    /\ KeywordFallback
    /\ Fragments = << <<"create", " ", "ticket">>, <<"Urgent", "!">> >>
    /\ direct.out = Dict("agent" :> Str(<<"emergency">>))

\* the agents of the router
RouterAgents ==
    {Str(<<"ticket", "ing">>), Str(<<"faq">>), Str(<<"emergency">>), Str(<<"supervisor">>)}

\* C32: the agent of the routing decision extracted from a supervisor's reply
\* is one of ticketing, faq, emergency and supervisor, whatever the reply holds
C32_DecisionInClosedEnum ==
    ExtractReturned => Get(direct.out, "agent", None) \in RouterAgents

\* the ticketing handler was entered and the classifier gave a create_ticket intent
CreateIntended ==
    /\ intent # None /\ intent.t = "dict"
    /\ Get(intent, "action", None) = Str(<<"create_ticket">>)

\* C33: on a create_ticket intent the ticketing handler writes exactly one
\* ticket, made of the subject, description, priority and assigned_to of the
\* intent or their defaults, and returns action create_ticket with the ticket
\* and success true, or with success false when the store write failed
C33_CreateIntentCreatesTicket ==
    CreateIntended =>
        /\ raised = NoExc
        /\ Count(calls, "put_item") = 1
        /\ \E i \in DOMAIN dispatched :
              /\ dispatched[i].handler = "ticketing"
              /\ Get(dispatched[i].output, "action", None) = Str(<<"create_ticket">>)
              /\ \/ /\ Get(dispatched[i].output, "success", None) = Bool(FALSE)
                    /\ Get(dispatched[i].output, "ticket", None) = None
                 \/ /\ Get(dispatched[i].output, "success", None) = Bool(TRUE)
                    /\ \E id \in DOMAIN table :
                          /\ table[id] = Get(dispatched[i].output, "ticket", None)
                          /\ Get(table[id], "subject", None)
                                = Get(intent, "subject", Str(<<"No subject provided">>))
                          /\ Get(table[id], "description", None)
                                = Get(intent, "description", Str(<<"No description provided">>))
                          /\ Get(table[id], "priority", None)
                                = Get(intent, "priority", Str(<<"medium">>))
                          /\ Get(table[id], "assigned_to", None)
                                = Get(intent, "assigned_to", None)

\* C34: within one request the notification topic is published to at most
\* once, on the short-circuit of the pre-check as on the supervisor's decision
C34_PublishedAtMostOnce ==
    Count(calls, "sns.publish") <= 1

\* the pre-check found an emergency and the emergency handler has returned
ShortCircuited ==
    /\ emergency_evaluation # None
    /\ Truthy(Get(emergency_evaluation, "is_emergency", Bool(FALSE)))
    /\ dispatched # <<>>
    /\ dispatched[1].handler = "emergency"

\* C35: the response of a short-circuit describes the evaluation of the
\* pre-check: its status is emergency_escalated or emergency_identified, and
\* its severity and actions are those of that evaluation
C35_ShortCircuitDescribesPrecheck ==
    ShortCircuited =>
        /\ Get(dispatched[1].output, "status", None)
              \in {Str(<<"emergency_escalated">>), Str(<<"emergency_identified">>)}
        /\ Get(dispatched[1].output, "severity", None)
              = Get(emergency_evaluation, "severity", None)
        /\ Get(dispatched[1].output, "actions", None)
              = Get(emergency_evaluation, "recommended_actions", List(<<>>))

\* the places of the listing whose document matches the query: a key with one
\* of the three suffixes and a body that shares a token with the query
Matching ==
    {k \in DOMAIN ListedKeys :
        /\ ListedKeys[k][Len(ListedKeys[k])] \in {".txt", ".md", ".json"}
        /\ SharedTokens(DocBody(ListedKeys[k])) > 0}

\* the first n matching places of the listing
FirstMatching(n) == {k \in Matching : Cardinality({m \in Matching : m < k}) < n}

\* the call returned and every body it asked for was there
RetrievedAll ==
    /\ RetrieveReturned
    /\ \A i \in DOMAIN direct.out.calls :
          direct.out.calls[i].op = "get_object" => direct.out.calls[i].arg.v \in DocKeys

\* C36: retrieval scans the listing in its order and stops at max_docs matching
\* documents: the documents returned are the first max_docs matching documents
\* of the listing, whatever the relevance of those listed later, and no body
\* listed behind the last of them is fetched once the cap is reached
C36_BoundedScanInListingOrder ==
    RetrievedAll =>
        /\ {direct.out.docs[i].source : i \in DOMAIN direct.out.docs}
              = {ListedKeys[k] : k \in FirstMatching(direct.max_docs)}
        /\ Len(direct.out.docs) = Cardinality(FirstMatching(direct.max_docs))
        /\ Cardinality(Matching) >= direct.max_docs =>
              \A i \in DOMAIN direct.out.calls :
                  direct.out.calls[i].op = "get_object" =>
                      \E k \in FirstMatching(direct.max_docs) :
                          ListedAt(direct.out.calls[i].arg.v) <= k

\* with a cap of one document the first matching document of the listing is
\* returned, although a document listed behind it shares more tokens with the
\* query, and the body of that document was not fetched
C36_Witness ==
    /\ RetrievedAll
    /\ direct.max_docs = 1
    /\ Len(direct.out.docs) = 1
    /\ \E k \in Matching :
          /\ ListedAt(direct.out.docs[1].source) < k
          /\ SharedTokens(DocBody(ListedKeys[k])) > direct.out.docs[1].relevance
          /\ \A i \in DOMAIN direct.out.calls : direct.out.calls[i].arg # Str(ListedKeys[k])

\* the router has returned a response object
RouterResponded == response # None /\ response.t = "dict"

\* the texts an output pass hands back for the response of the router
FilteredTexts == {_extract_response_text(response), Redacted, Str(<<>>)}

\* C37: _extract_response_text and _update_response_text are inverse on the
\* responses of the router: the text extracted from a response updated with a
\* text is that text, also for a response without message, answer and response
\* field; and a response with one of these fields updated with its own text is
\* the response itself
C37_ExtractUpdateInverse ==
    RouterResponded =>
        /\ \A t \in FilteredTexts :
              _extract_response_text(_update_response_text(response, t)) = t
        /\ (Has(response, "message") \/ Has(response, "answer") \/ Has(response, "response"))
              => _update_response_text(response, _extract_response_text(response)) = response

\* C38: a record enters the store by a create only, with status open; a record
\* of the store is changed by a cancel only; its status stays as it is or goes
\* to cancelled, and a cancelled record stays cancelled
C38_TicketLifecycle ==
    [][\A id \in DOMAIN table' :
          /\ id \notin DOMAIN table =>
                /\ Calls("create_ticket")
                /\ Get(table'[id], "status", None) = Str(<<"open">>)
          /\ id \in DOMAIN table =>
                /\ table'[id] # table[id] => Calls("cancel_ticket")
                /\ \/ Get(table'[id], "status", None) = Get(table[id], "status", None)
                   \/ /\ Get(table[id], "status", None) = Str(<<"open">>)
                      /\ Get(table'[id], "status", None) = Str(<<"cancelled">>)]_vars

\* the system was built without the supervisor's agent id or alias id
SupervisorIdMissing == ~Truthy(config.agent_id) \/ ~Truthy(config.agent_alias_id)

\* C39: a missing supervisor agent id or alias id is found when the system is
\* built: no system built without them takes a request, and no request raises
\* for the missing identifier
C39_MissingIdFailsAtConstruction ==
    SupervisorIdMissing => pc = "idle" /\ raised # "ValueError"

\* C40: in the interactive loop a request is sent with the session id of the
\* loop, the one of the most recent response that carried one; once a response
\* has carried a non-empty session id the session id of the loop is never empty
\* again, and so every later request is sent with a non-empty one
C40_SessionContinuity ==
    direct.op = "main" =>
        /\ pc \notin {"idle", "exited"} => session_id = direct.session_id
        /\ direct.seen => Truthy(direct.session_id)

====
